---- MODULE Spec2Model ----
(***************************************************************************)
(* SimpleHub: the check of one monitored site (server/src/run.js,          *)
(* server/src/checkin.js, the secrets codec).  A check gates check-in and  *)
(* model fetch, fetches and normalises the model list, writes one          *)
(* ModelSnapshot, compares against the latest snapshot whose errorMessage  *)
(* is null, writes a ModelDiff and requests a notification.                *)
(*                                                                         *)
(* The scheduling coordinator (the scheduler half of server/src/notifier.js)*)
(* keeps one cron job per site and one global job: SpecSched interleaves   *)
(* scheduleSite, scheduleAll, onSiteUpdated and scheduleGlobalTask at      *)
(* their awaits; SpecBatch runs the callbacks of the jobs.                 *)
(***************************************************************************)
EXTENDS Integers, Sequences, FiniteSets, Bags, TLC

\* ---------------------------------------------------------------- bounds
MaxId == 2        \* model ids and site ids are 1..MaxId, ordered as localeCompare orders them
MaxLen == 2       \* longest model list an upstream answers / a pure function gets
MaxChecks == 3    \* checks of the site in one behaviour

Null == "null"
Ids == 1..MaxId

SeqsUpTo(S, n) == UNION {[1..k -> S] : k \in 0..n}

IdsOf(list) == {list[i].id : i \in 1..Len(list)}

\* ------------------------------------------------------------ secrets codec
\* Envelopes: "" (no credential stored), a v1 envelope made by encrypt under
\* this key, a v1 envelope whose tag does not verify, another version prefix.
Envelopes == {"", "v1:valid", "v1:tampered", "v0:other"}

\* AES-256-GCM as a symbolic cipher: a ciphertext is readable and an
\* authentication tag verifies only under the key and nonce that made them.
KEY == "key"
OtherKey == "other key"

Sealed(key, iv, text) == [key |-> key, iv |-> iv, text |-> text, whole |-> TRUE]

AuthTag(key, iv, ct) == [key |-> key, iv |-> iv, ct |-> ct]

\* encrypt(plaintext) with the nonce that randomBytes drew and with a key:
\* the payload string, as its version prefix and the bytes behind it.
seal(key, plaintext, iv) ==
  LET ct == Sealed(key, iv, plaintext)
  IN  [kind |-> "text", ver |-> "v1", hasData |-> TRUE, trailing |-> FALSE,
       iv |-> iv, tag |-> AuthTag(key, iv, ct), ct |-> ct]

encrypt(plaintext, iv) == seal(KEY, plaintext, iv)

\* decrypt on the parts of a payload: '' for a falsy payload, the first two
\* parts of split(':'), a throw on another version, on missing data and on a
\* tag that does not verify.
decryptPayload(p) ==
  IF p.kind \in {"missing", "empty"} THEN [threw |-> FALSE, pt |-> ""]
  ELSE IF p.ver # "v1" THEN [threw |-> TRUE, pt |-> ""]
  ELSE IF ~p.hasData THEN [threw |-> TRUE, pt |-> ""]
  ELSE IF p.tag # AuthTag(KEY, p.iv, p.ct) THEN [threw |-> TRUE, pt |-> ""]
  ELSE [threw |-> FALSE, pt |-> p.ct.text]

\* What can have happened to a stored payload.
Alterations ==
  {"none", "missing", "empty", "version", "noData", "truncated", "nonce", "tag",
   "ciphertext", "foreignKey", "trailing"}

Altered(p, a) ==
  IF a = "missing" THEN [p EXCEPT !.kind = "missing"]
  ELSE IF a = "empty" THEN [p EXCEPT !.kind = "empty"]
  ELSE IF a = "version" THEN [p EXCEPT !.ver = "v0"]
  ELSE IF a = "noData" THEN [p EXCEPT !.hasData = FALSE]
  ELSE IF a = "truncated" THEN [p EXCEPT !.ct.whole = FALSE]
  ELSE IF a = "nonce" THEN [p EXCEPT !.iv = p.iv + 1]
  ELSE IF a = "tag" THEN [p EXCEPT !.tag.key = "none"]
  ELSE IF a = "ciphertext" THEN [p EXCEPT !.ct.text = "altered"]
  ELSE IF a = "foreignKey" THEN seal(OtherKey, p.ct.text, p.iv)
  ELSE IF a = "trailing" THEN [p EXCEPT !.trailing = TRUE]
  ELSE p

\* The stored payloads of the checks, by name.
Payload(name) ==
  IF name = "" THEN Altered(encrypt("secret", 1), "empty")
  ELSE IF name = "v1:valid" THEN encrypt("secret", 1)
  ELSE IF name = "v1:tampered" THEN Altered(encrypt("secret", 1), "tag")
  ELSE Altered(encrypt("secret", 1), "version")

decrypt(payload) == decryptPayload(Payload(payload))

\* ------------------------------------------------------------------ gating
ApiTypes == {"other", "voapi", "newapi", "veloera", "donehub"}
CheckInModes == {Null, "model", "checkin", "both"}

isManualTrigger(options) == options.isManual = TRUE

shouldCheckIn_ModeOnManual(site, isManual) ==
  IF site.apiType # "veloera" \/ ~site.enableCheckIn THEN FALSE
  ELSE LET mode == IF site.checkInMode = Null THEN "both" ELSE site.checkInMode
       IN  mode = "checkin" \/ mode = "both"

shouldCheckIn(site, isManual) ==
  IF isManual THEN site.apiType = "veloera" /\ site.enableCheckIn
  ELSE IF site.apiType # "veloera" \/ ~site.enableCheckIn THEN FALSE
  ELSE LET mode == IF site.checkInMode = Null THEN "both" ELSE site.checkInMode
       IN  mode = "checkin" \/ mode = "both"

shouldCheckModels(site, isManual) ==
  IF isManual THEN TRUE
  ELSE LET mode == IF site.checkInMode = Null THEN "both" ELSE site.checkInMode
       IN  mode = "model" \/ mode = "both"

\* ------------------------------------------------------- model lists, JSON
\* A canonical entry {id, object:'model', owned_by, created}; created is 0
\* when the upstream supplied it and the fetch time when the code stamped it.
Insert(e, sorted) ==
  LET k == Cardinality({i \in 1..Len(sorted) : sorted[i].id <= e.id})
  IN  SubSeq(sorted, 1, k) \o <<e>> \o SubSeq(sorted, k + 1, Len(sorted))

RECURSIVE SortById(_)
\* list.sort((a, b) => String(a.id).localeCompare(String(b.id))): stable.
SortById(list) ==
  IF list = <<>> THEN <<>>
  ELSE Insert(list[Len(list)], SortById(SubSeq(list, 1, Len(list) - 1)))

IsSortedById(list) == \A i \in 1..Len(list) - 1 : list[i].id <= list[i + 1].id

\* An upstream entry: its id and whether it carries a created field (it
\* carries no owned_by, so owned_by takes its default).
normalizeModels(response, now) ==
  LET list == [i \in 1..Len(response) |->
                 [id |-> response[i].id,
                  owned_by |-> "unknown",
                  created |-> IF response[i].hasCreated THEN 0 ELSE now]]
  IN  SortById(list)

\* JSON.stringify / JSON.parse of a model list: one tuple per entry, in order.
JSONstringify(models) ==
  [i \in 1..Len(models) |-> <<models[i].id, models[i].owned_by, models[i].created>>]

JSONparse(json) ==
  [i \in 1..Len(json) |-> [id |-> json[i][1], owned_by |-> json[i][2], created |-> json[i][3]]]

\* sha256 over the JSON text, taken as collision free: the digest is the text.
hashModels(models) == <<"sha256", JSONstringify(models)>>

EmptyHash == <<>>      \* hash: ''
EmptyJson == <<>>      \* modelsJson: '[]'

\* new Map(list.map(m => [m.id, m])): keys in first-insertion order, each with
\* the value of its last occurrence.
MapKeys(list) ==
  LET firsts == SelectSeq([i \in 1..Len(list) |-> i],
                          LAMBDA i : \A j \in 1..(i - 1) : list[j].id # list[i].id)
  IN  [k \in 1..Len(firsts) |-> list[firsts[k]].id]

MapGet(list, id) ==
  LET last == CHOOSE i \in 1..Len(list) :
                /\ list[i].id = id
                /\ \A j \in (i + 1)..Len(list) : list[j].id # id
  IN  list[last]

MapHas(list, id) == \E i \in 1..Len(list) : list[i].id = id

computeDiff_RemovedTestsPrev(prevList, nextList) ==
  LET prevKeys == MapKeys(prevList)
      nextKeys == MapKeys(nextList)
      addedKeys == SelectSeq(nextKeys, LAMBDA id : ~MapHas(prevList, id))
      removedKeys == SelectSeq(prevKeys, LAMBDA id : ~MapHas(prevList, id))
  IN  [added |-> [k \in 1..Len(addedKeys) |-> MapGet(nextList, addedKeys[k])],
       removed |-> [k \in 1..Len(removedKeys) |-> MapGet(prevList, removedKeys[k])],
       changed |-> <<>>]

computeDiff(prevList, nextList) ==
  LET prevKeys == MapKeys(prevList)
      nextKeys == MapKeys(nextList)
      addedKeys == SelectSeq(nextKeys, LAMBDA id : ~MapHas(prevList, id))
      removedKeys == SelectSeq(prevKeys, LAMBDA id : ~MapHas(nextList, id))
  IN  [added |-> [k \in 1..Len(addedKeys) |-> MapGet(nextList, addedKeys[k])],
       removed |-> [k \in 1..Len(removedKeys) |-> MapGet(prevList, removedKeys[k])],
       changed |-> <<>>]

\* ------------------------------------------------------- provider adapters
\* What the upstream answers to the model request: a failure (timeout, non-2xx,
\* unparsable or ill-formed body) or the ids of its entries in upstream order.
FetchOutcomes ==
  {[ok |-> FALSE, ids |-> <<>>]} \cup {[ok |-> TRUE, ids |-> s] : s \in SeqsUpTo(Ids, MaxLen)}

UpstreamEntries(ids, hasCreated) ==
  [i \in 1..Len(ids) |-> [id |-> ids[i], hasCreated |-> hasCreated]]

\* fetchModels (openai-compatible: other, voapi): normalizeModels(json).
fetchModels(ids, hasCreated, now) == normalizeModels(UpstreamEntries(ids, hasCreated), now)

\* fetchModelsNewapi (newapi, veloera): json.data mapped in upstream order.
fetchModelsNewapi(ids, apiType, now) ==
  [i \in 1..Len(ids) |->
     [id |-> ids[i],
      owned_by |-> IF apiType = "newapi" THEN "new-api" ELSE "veloera",
      created |-> now]]

\* fetchModelsDonehub: Object.keys(json.data) mapped in key order (model
\* names are not integer-like keys: insertion order, a repeated key once).
fetchModelsDonehub(ids, now) ==
  LET keys == MapKeys([i \in 1..Len(ids) |-> [id |-> ids[i]]])
  IN  [i \in 1..Len(keys) |-> [id |-> keys[i], owned_by |-> "unknown", created |-> now]]

fetchModelsFunc(site, ids, hasCreated, now) ==
  IF site.apiType \in {"newapi", "veloera"} THEN fetchModelsNewapi(ids, site.apiType, now)
  ELSE IF site.apiType = "donehub" THEN fetchModelsDonehub(ids, now)
  ELSE fetchModels(ids, hasCreated, now)

\* The structured error a failed fetch throws, and the message the error
\* snapshot stores: e.errorMessage || e.error?.message || String(e).
FetchError == [errorMessage |-> "fetch failed", error |-> "fetch failed"]

ErrorSnapshotMessage_Null(e) == Null

ErrorSnapshotMessage(e) ==
  IF e.errorMessage # "" THEN e.errorMessage
  ELSE IF e.error # "" THEN e.error
  ELSE "[object Object]"

\* performCheckIn for a site that passed shouldCheckIn: the upstream accepts
\* or rejects the check-in (every failure inside is caught and returned).
CheckInOutcomes == {"true", "false"}

\* -------------------------------------------------------------------- state
VARIABLES
  site,                \* the Site row under check
  upstreamHasCreated,  \* whether the upstream's entries carry a created field
  clock,               \* Date.now(), one tick per check started
  snapshots,           \* ModelSnapshot rows of the site, in fetchedAt order
  modelDiffs,          \* ModelDiff rows of the site
  run,                 \* the checkSite call in flight or last finished
  pA, pB, pOut,        \* arguments and results of the pure functions
  siteTable,           \* scheduleCron of every Site row
  scheduleConfig,      \* the stored ScheduleConfig row, or NoConfig
  jobs,                \* the registry: site id -> handle of its job, 0 if none
  liveJobs,            \* individual cron jobs created and not stopped
  globalScheduleJob,   \* handle of the registered global job, 0 if null
  globalJobs,          \* global cron jobs created and not stopped
  calls,               \* scheduling calls suspended at an await
  nextHandle,          \* identity of the next cron job created
  opsLeft,             \* scheduling operations the environment may still start
  derived,             \* a re-derivation over all sites was started
  batch,               \* the firing of the global job in flight or last finished
  indiv,               \* the firing of an individual job in flight or last finished
  now,                 \* wall-clock time
  checks,              \* the checkSite calls of that global firing, in starting order
  mails,               \* the calls into the notifier during that global firing
  lastRun,             \* ScheduleConfig.lastRun, -1 if never written
  firingsLeft,         \* job firings the clock may still produce
  mailIn,              \* a call into the notifier: entry point, arguments, EmailConfig
  mailOut,             \* what the notifier did, and what its caller did next
  argIn,               \* the argument of a function under study
  resOut,              \* its result
  upstream,            \* which requests the upstream ever answers
  racers               \* two checks of one site that run at the same time

schedVars == <<siteTable, scheduleConfig, jobs, liveJobs, globalScheduleJob,
               globalJobs, calls, nextHandle, opsLeft, derived>>

batchVars == <<batch, indiv, now, checks, mails, lastRun, firingsLeft>>

mailVars == <<mailIn, mailOut>>
callVars == <<argIn, resOut>>
liveVars == <<upstream>>
raceVars == <<racers>>

vars == <<site, upstreamHasCreated, clock, snapshots, modelDiffs, run, pA, pB, pOut,
          schedVars, batchVars, mailVars, callVars, liveVars, raceVars>>

checkVars == <<site, upstreamHasCreated, clock, snapshots, modelDiffs, run>>
pureVars == <<pA, pB, pOut>>

\* What the steps of one component leave alone.
exceptCheck == <<pureVars, schedVars, batchVars, mailVars, callVars, liveVars, raceVars>>
exceptPure == <<checkVars, schedVars, batchVars, mailVars, callVars, liveVars, raceVars>>
exceptSched == <<checkVars, pureVars, batchVars, mailVars, callVars, liveVars, raceVars>>
exceptBatch == <<checkVars, pureVars, schedVars, mailVars, callVars, liveVars, raceVars>>
exceptMail == <<checkVars, pureVars, schedVars, batchVars, callVars, liveVars, raceVars>>
exceptCall == <<checkVars, pureVars, schedVars, batchVars, mailVars, liveVars, raceVars>>
exceptRace == <<site, upstreamHasCreated, clock, run, pureVars, schedVars, batchVars, mailVars,
                callVars, liveVars>>

NoDiff == [added |-> <<>>, removed |-> <<>>, changed |-> <<>>]

\* billingLimit, billingUsage, billingError of a check: all null until the
\* billing results are read after a successful model fetch.
NoBilling == [limit |-> Null, usage |-> Null, error |-> Null]

\* What the billing endpoint does when it is asked.
BillingOutcomes == {"fulfilled", "rejected"}

\* Lines 734-783: the billing request is started unless the site has
\* unlimited quota; a voapi site needs a billing token that decrypts non-empty.
BillingRequested_IgnoresUnlimited(s) ==
  s.apiType = "voapi" => (s.billingAuthValue # "" /\ decrypt(s.billingAuthValue).pt # "")

BillingRequested(s) ==
  /\ ~s.unlimitedQuota
  /\ s.apiType = "voapi" => (s.billingAuthValue # "" /\ decrypt(s.billingAuthValue).pt # "")

\* Lines 790-826: the settled billing result as the snapshot stores it.
BillingResult_DropsError(s, billing) ==
  IF ~BillingRequested(s) THEN NoBilling
  ELSE IF billing = "fulfilled" THEN [limit |-> "limit", usage |-> "usage", error |-> Null]
  ELSE NoBilling

BillingResult(s, billing) ==
  IF ~BillingRequested(s) THEN NoBilling
  ELSE IF billing = "fulfilled" THEN [limit |-> "limit", usage |-> "usage", error |-> Null]
  ELSE [limit |-> Null, usage |-> Null, error |-> "billing failed"]

IdleRun ==
  [pc |-> "idle", isManual |-> FALSE, skipNotification |-> FALSE,
   needCheckIn |-> FALSE, needCheckModels |-> FALSE,
   checkInSuccess |-> Null, models |-> <<>>, hash |-> EmptyHash,
   lastSnap |-> 0, snap |-> 0, hasChanges |-> FALSE, diff |-> NoDiff,
   notified |-> 0, startSnaps |-> 0, startDiffs |-> 0,
   billing |-> NoBilling,
   didCheckIn |-> FALSE, didFetch |-> FALSE, didBilling |-> FALSE,
   fetchOk |-> FALSE, checkInChanged |-> FALSE, decryptFailed |-> FALSE,
   lastCheckedAt |-> 0]

\* prisma.modelSnapshot.findFirst({where: {siteId, errorMessage: null},
\* orderBy: {fetchedAt: 'desc'}}): the row id, 0 when there is none.
findFirst_AnySnapshot(snaps) == Len(snaps)

findFirstSuccessful(snaps) ==
  LET ok == {i \in 1..Len(snaps) : snaps[i].errorMessage = Null}
  IN  IF ok = {} THEN 0 ELSE CHOOSE i \in ok : \A j \in ok : j <= i

Snapshot(id, modelsJson, hash, errorMessage, billing, checkInSuccess) ==
  [id |-> id, modelsJson |-> modelsJson, hash |-> hash,
   errorMessage |-> errorMessage,
   billingLimit |-> billing.limit, billingUsage |-> billing.usage,
   billingError |-> billing.error,
   checkInSuccess |-> checkInSuccess]

\* Lines 689-707: the row a run without model check writes.
CheckinOnlySnapshot_HashOfEmptyList(id, checkInSuccess) ==
  Snapshot(id, EmptyJson, hashModels(<<>>), Null, NoBilling, checkInSuccess)

CheckinOnlySnapshot(id, checkInSuccess) ==
  Snapshot(id, EmptyJson, EmptyHash, Null, NoBilling, checkInSuccess)

\* Site rows the checks run against.
SiteRow(apiType, enableCheckIn, checkInMode, apiKeyEnc, billingAuthValue, unlimitedQuota) ==
  [apiType |-> apiType, enableCheckIn |-> enableCheckIn, checkInMode |-> checkInMode,
   apiKeyEnc |-> apiKeyEnc, billingAuthValue |-> billingAuthValue,
   unlimitedQuota |-> unlimitedQuota]

AllSites ==
  {SiteRow(t, e, m, k, b, u) :
     t \in ApiTypes, e \in BOOLEAN, m \in CheckInModes,
     k \in Envelopes, b \in Envelopes,
     u \in BOOLEAN}

CheckedSites ==
  { SiteRow("other", FALSE, Null, "v1:valid", "", FALSE),
    SiteRow("other", FALSE, "checkin", "v1:tampered", "", FALSE),
    SiteRow("voapi", FALSE, "model", "v1:valid", "v1:tampered", FALSE),
    SiteRow("voapi", FALSE, "checkin", "v1:valid", "v1:valid", FALSE),
    SiteRow("newapi", TRUE, "both", "v1:valid", "", FALSE),
    SiteRow("donehub", FALSE, "checkin", "v1:valid", "", TRUE),
    SiteRow("veloera", TRUE, "checkin", "v1:valid", "", FALSE),
    SiteRow("veloera", FALSE, "checkin", "v1:valid", "", FALSE) }

\* ------------------------------------------------------------- checkSite
\* Lines 636-665: options, decrypt of the API key, gating.
CheckSite_Begin(options, budget) ==
  /\ run.pc \in {"idle", "returned", "threw"}
  /\ clock < budget
  /\ clock' = clock + 1
  /\ LET isManual == isManualTrigger(options)
         base == [IdleRun EXCEPT !.isManual = isManual,
                                 !.skipNotification = options.skipNotification,
                                 !.startSnaps = Len(snapshots),
                                 !.startDiffs = Len(modelDiffs)]
         needCheckIn == shouldCheckIn(site, isManual)
         needCheckModels == shouldCheckModels(site, isManual)
     IN  IF decrypt(site.apiKeyEnc).threw
         THEN run' = [base EXCEPT !.pc = "threw", !.decryptFailed = TRUE]
         ELSE run' = [base EXCEPT !.needCheckIn = needCheckIn,
                                  !.needCheckModels = needCheckModels,
                                  !.pc = IF needCheckIn THEN "checkin"
                                         ELSE IF ~needCheckModels THEN "checkinOnly"
                                         ELSE "fetch"]
  /\ UNCHANGED <<site, upstreamHasCreated, snapshots, modelDiffs>>
  /\ UNCHANGED exceptCheck

\* Lines 667-683: performCheckIn and its outcome.
CheckSite_CheckIn(outcome) ==
  /\ run.pc = "checkin"
  /\ run' = [run EXCEPT !.checkInSuccess = outcome,
                        !.didCheckIn = TRUE,
                        !.pc = IF ~run.needCheckModels THEN "checkinOnly" ELSE "fetch"]
  /\ UNCHANGED <<site, upstreamHasCreated, clock, snapshots, modelDiffs>>
  /\ UNCHANGED exceptCheck

\* Lines 686-720: checkin-only snapshot and return.
CheckSite_CheckinOnly ==
  /\ run.pc = "checkinOnly"
  /\ snapshots' = Append(snapshots, CheckinOnlySnapshot(Len(snapshots) + 1, run.checkInSuccess))
  /\ run' = [run EXCEPT !.pc = "returned", !.hasChanges = FALSE, !.snap = Len(snapshots) + 1,
                        !.lastCheckedAt = clock]
  /\ UNCHANGED <<site, upstreamHasCreated, clock, modelDiffs>>
  /\ UNCHANGED exceptCheck

\* Lines 849-870: the row the catch block of the model request writes; it has
\* the check-in outcome of the run (success flag, message, quota and error are
\* the four columns of one outcome).
ErrorSnapshot_WithoutCheckIn(id, checkInSuccess) ==
  Snapshot(id, EmptyJson, EmptyHash, ErrorSnapshotMessage(FetchError), NoBilling, Null)

ErrorSnapshot(id, checkInSuccess) ==
  Snapshot(id, EmptyJson, EmptyHash, ErrorSnapshotMessage(FetchError), NoBilling,
           checkInSuccess)

\* Lines 722-883: dispatch on apiType (the voapi billing token is decrypted
\* outside the try), the model fetch, and the error snapshot of a failed fetch.
CheckSite_Fetch(outcome, billing) ==
  /\ run.pc = "fetch"
  /\ IF /\ site.apiType = "voapi"
        /\ ~site.unlimitedQuota
        /\ site.billingAuthValue # ""
        /\ decrypt(site.billingAuthValue).threw
     THEN /\ run' = [run EXCEPT !.pc = "threw", !.decryptFailed = TRUE]
          /\ UNCHANGED snapshots
     ELSE IF ~outcome.ok
     THEN /\ snapshots' = Append(snapshots,
                            ErrorSnapshot(Len(snapshots) + 1, run.checkInSuccess))
          /\ run' = [run EXCEPT !.pc = "threw", !.didFetch = TRUE,
                                !.didBilling = BillingRequested(site),
                                !.snap = Len(snapshots) + 1,
                                !.lastCheckedAt = clock]
     ELSE /\ run' = [run EXCEPT !.pc = "compare", !.didFetch = TRUE, !.fetchOk = TRUE,
                                !.didBilling = BillingRequested(site),
                                !.billing = BillingResult(site, billing),
                                !.models = fetchModelsFunc(site, outcome.ids,
                                                           upstreamHasCreated, clock)]
          /\ UNCHANGED snapshots
  /\ UNCHANGED <<site, upstreamHasCreated, clock, modelDiffs>>
  /\ UNCHANGED exceptCheck

\* Lines 885-1036: hash, lookup of the last snapshot with errorMessage null,
\* the snapshot of the successful fetch, diff against lastSnap, ModelDiff row,
\* notification (sendModelChangeNotification is called once) and return.
\* checkin.js 84-107: the error text that goes with a check-in outcome.
CheckInErrorOf(checkInSuccess) == IF checkInSuccess = "false" THEN "check-in failed" ELSE Null

\* Lines 897-942: whether the check-in outcome changed, against lastSnap (0:
\* there is none), the snapshot the diff is made against.
checkInChanged(needCheckIn, snaps, lastSnap, checkInSuccess) ==
  IF ~needCheckIn THEN FALSE
  ELSE IF lastSnap = 0 THEN checkInSuccess # Null
  ELSE LET lastCheckInSuccess == snaps[lastSnap].checkInSuccess
           lastCheckInError == CheckInErrorOf(lastCheckInSuccess)
       IN  IF lastCheckInSuccess = Null /\ checkInSuccess # Null THEN TRUE
           ELSE IF /\ lastCheckInSuccess # Null
                   /\ checkInSuccess # Null
                   /\ lastCheckInSuccess # checkInSuccess THEN TRUE
           ELSE checkInSuccess = "false" /\ lastCheckInError # CheckInErrorOf(checkInSuccess)

\* Lines 993-1008: the single-site notification is sent for a change unless
\* the caller suppressed it.
NotifiesSingleSite_IgnoresSkip(hasChanges, skipNotification) == hasChanges

NotifiesSingleSite(hasChanges, skipNotification) == hasChanges /\ ~skipNotification

\* Lines 972-985: the ModelDiff row is created for a change, whoever the
\* caller is.
WritesModelDiff_UnlessSkipped(hasChanges, skipNotification) ==
  hasChanges /\ ~skipNotification

WritesModelDiff(hasChanges, skipNotification) == hasChanges

CheckSite_Compare ==
  /\ run.pc = "compare"
  /\ LET hash == hashModels(run.models)
         lastSnap == findFirstSuccessful(snapshots)
         snap == Len(snapshots) + 1
         compare == lastSnap # 0 /\ snapshots[lastSnap].hash # hash
         prev == IF compare THEN JSONparse(snapshots[lastSnap].modelsJson) ELSE <<>>
         diff == IF compare THEN computeDiff(prev, run.models) ELSE NoDiff
         hasChanges == compare /\ (Len(diff.added) > 0 \/ Len(diff.removed) > 0)
         notify == NotifiesSingleSite(hasChanges, run.skipNotification)
     IN  /\ snapshots' = Append(snapshots,
                           Snapshot(snap, JSONstringify(run.models), hash, Null,
                                    run.billing, run.checkInSuccess))
         /\ modelDiffs' = IF WritesModelDiff(hasChanges, run.skipNotification)
                          THEN Append(modelDiffs,
                                 [addedJson |-> JSONstringify(diff.added),
                                  removedJson |-> JSONstringify(diff.removed),
                                  changedJson |-> JSONstringify(diff.changed),
                                  snapshotFromId |-> lastSnap,
                                  snapshotToId |-> snap])
                          ELSE modelDiffs
         /\ run' = [run EXCEPT !.pc = "returned", !.hash = hash, !.lastSnap = lastSnap,
                               !.snap = snap, !.hasChanges = hasChanges,
                               !.checkInChanged =
                                 checkInChanged(run.needCheckIn, snapshots, lastSnap,
                                                run.checkInSuccess),
                               !.diff = diff, !.notified = IF notify THEN 1 ELSE 0,
                               !.lastCheckedAt = clock]
  /\ UNCHANGED <<site, upstreamHasCreated, clock>>
  /\ UNCHANGED exceptCheck

Options == [isManual : BOOLEAN, skipNotification : BOOLEAN]

PureOutIdle ==
  [done |-> FALSE, diff |-> NoDiff, self |-> NoDiff, hashA |-> EmptyHash, hashB |-> EmptyHash]

PureIdle ==
  /\ pA = <<>>
  /\ pB = <<>>
  /\ pOut = PureOutIdle

\* prisma.scheduleConfig.findFirst() when there is no row; a config argument
\* that is null.
NoConfig == [null |-> TRUE]

\* The scheduler before anything was scheduled, with no site rows of interest.
SchedIdle ==
  /\ siteTable = [i \in Ids |-> ""]
  /\ scheduleConfig = NoConfig
  /\ jobs = [i \in Ids |-> 0]
  /\ liveJobs = {}
  /\ globalScheduleJob = 0
  /\ globalJobs = {}
  /\ calls = EmptyBag
  /\ nextHandle = 1
  /\ opsLeft = 0
  /\ derived = FALSE

\* No call into the notifier.
NoEmailConfig == [null |-> TRUE]

IdleMailIn ==
  [entry |-> "none", config |-> NoEmailConfig, diff |-> NoDiff, failedSites |-> <<>>,
   lookup |-> "ok", dispatch |-> "ok", envKey |-> FALSE]

IdleMailOut == [pc |-> "idle", threw |-> FALSE, sends |-> 0, to |-> <<>>, caller |-> "waiting"]

MailIdle ==
  /\ mailIn = IdleMailIn
  /\ mailOut = IdleMailOut

\* No function is under study.
NoResult == [done |-> FALSE]

CallIdle ==
  /\ argIn = <<>>
  /\ resOut = NoResult

\* An upstream that answers every request.
Responsive == [checkin |-> TRUE, models |-> TRUE, billing |-> TRUE]

LiveIdle == upstream = Responsive

\* No second check runs.
RaceIdle == racers = <<>>

\* No job has fired.
IdleBatch ==
  [pc |-> "idle", config |-> NoConfig, sites |-> <<>>, i |-> 0,
   sitesWithChanges |-> <<>>, failedSites |-> <<>>, sleeps |-> 0, lastRunWrites |-> 0]

IdleIndiv ==
  [pc |-> "idle", site |-> 0, options |-> [isManual |-> FALSE, skipNotification |-> FALSE],
   started |-> 0, outcome |-> "null", mails |-> <<>>]

BatchIdle ==
  /\ batch = IdleBatch
  /\ indiv = IdleIndiv
  /\ now = 0
  /\ checks = <<>>
  /\ mails = <<>>
  /\ lastRun = -1
  /\ firingsLeft = 0

CheckIdle ==
  /\ clock = 0
  /\ snapshots = <<>>
  /\ modelDiffs = <<>>
  /\ run = IdleRun

Init ==
  /\ site \in CheckedSites
  /\ upstreamHasCreated \in (IF site.apiType \in {"other", "voapi"} THEN BOOLEAN ELSE {FALSE})
  /\ CheckIdle
  /\ PureIdle
  /\ SchedIdle
  /\ BatchIdle
  /\ MailIdle
  /\ CallIdle
  /\ LiveIdle
  /\ RaceIdle

Next ==
  \/ \E options \in Options : CheckSite_Begin(options, MaxChecks)
  \/ \E outcome \in CheckInOutcomes : CheckSite_CheckIn(outcome)
  \/ CheckSite_CheckinOnly
  \/ \E outcome \in FetchOutcomes : CheckSite_Fetch(outcome, "fulfilled")
  \/ CheckSite_Compare

Spec == Init /\ [][Next]_vars

\* ------------------------------------------------ gating over every site row
\* One check of any site row, with one failing and one answering upstream.
GateFetchOutcomes == {[ok |-> FALSE, ids |-> <<>>], [ok |-> TRUE, ids |-> <<1>>]}

InitGate ==
  /\ site \in AllSites
  /\ upstreamHasCreated = TRUE
  /\ CheckIdle
  /\ PureIdle
  /\ SchedIdle
  /\ BatchIdle
  /\ MailIdle
  /\ CallIdle
  /\ LiveIdle
  /\ RaceIdle

NextGate ==
  \/ \E options \in Options : CheckSite_Begin(options, 1)
  \/ \E outcome \in CheckInOutcomes : CheckSite_CheckIn(outcome)
  \/ CheckSite_CheckinOnly
  \/ \E outcome \in GateFetchOutcomes, billing \in BillingOutcomes :
       CheckSite_Fetch(outcome, billing)
  \/ CheckSite_Compare

SpecGate == InitGate /\ [][NextGate]_vars

\* ------------------------------------------- checks with a failing billing
\* Successive checks of one site whose billing endpoint answers or fails.
DegradedFetchOutcomes ==
  {[ok |-> FALSE, ids |-> <<>>], [ok |-> TRUE, ids |-> <<1>>], [ok |-> TRUE, ids |-> <<1, 2>>]}

NextDegraded ==
  \/ \E options \in Options : CheckSite_Begin(options, MaxChecks)
  \/ \E outcome \in CheckInOutcomes : CheckSite_CheckIn(outcome)
  \/ CheckSite_CheckinOnly
  \/ \E outcome \in DegradedFetchOutcomes, billing \in BillingOutcomes :
       CheckSite_Fetch(outcome, billing)
  \/ CheckSite_Compare

SpecDegraded == Init /\ [][NextDegraded]_vars

\* ------------------------------------------------- computeDiff, hashModels
\* Arbitrary model lists: entries differ in id and in another attribute.
PureEntries == [id : Ids, owned_by : {"unknown", "x"}, created : {0}]
PureLists == SeqsUpTo(PureEntries, MaxLen)

InitPure ==
  /\ site = SiteRow("other", FALSE, Null, "v1:valid", "", FALSE)
  /\ upstreamHasCreated = TRUE
  /\ CheckIdle
  /\ pA \in PureLists
  /\ pB \in PureLists
  /\ pOut = PureOutIdle
  /\ SchedIdle
  /\ BatchIdle
  /\ MailIdle
  /\ CallIdle
  /\ LiveIdle
  /\ RaceIdle

Evaluate ==
  /\ ~pOut.done
  /\ pOut' = [done |-> TRUE,
              diff |-> computeDiff(pA, pB),
              self |-> computeDiff(pA, pA),
              hashA |-> hashModels(pA),
              hashB |-> hashModels(pB)]
  /\ UNCHANGED <<pA, pB>>
  /\ UNCHANGED exceptPure

NextPure == Evaluate

SpecPure == InitPure /\ [][NextPure]_vars

\* --------------------------------------------------- scheduling coordinator
\* Scheduling operations the environment starts in one behaviour.
MaxSchedOps == 3

\* scheduleCron values: empty, blank, and a cron expression.
Crons == {"", " ", "0 8 * * *"}

\* String.prototype.trim on the values above.
trim(c) == IF c = " " THEN "" ELSE c

\* !site.scheduleCron || !site.scheduleCron.trim()
HasNoCron(c) == c = Null \/ c = "" \/ trim(c) = ""

\* The ScheduleConfig fields the coordinator branches on.
Configs == [enabled : BOOLEAN, overrideIndividual : BOOLEAN]

\* globalConfig?.enabled && globalConfig.overrideIndividual
OverrideActive(config) == config # NoConfig /\ config.enabled /\ config.overrideIndividual

\* !config || !config.enabled
PolicyDisabled(config) == config = NoConfig \/ ~config.enabled

\* prisma.site.findMany(): the rows as they are when the query is answered.
findManySites == [i \in Ids |-> [id |-> i, scheduleCron |-> siteTable[i]]]

NoSite == [id |-> 0, scheduleCron |-> Null]

\* The module-level state of the scheduler and the jobs node-cron is running.
SchedState ==
  [jobs |-> jobs, live |-> liveJobs, globalScheduleJob |-> globalScheduleJob,
   globals |-> globalJobs, next |-> nextHandle]

\* scheduleSite up to its await: stop and forget the registered job of the site.
scheduleSite_Stop_EveryJob(st, s) ==
  [st EXCEPT !.live = {}, !.jobs = [i \in Ids |-> 0]]

scheduleSite_Stop(st, s) ==
  IF st.jobs[s.id] # 0
  THEN [st EXCEPT !.live = {j \in @ : j.h # st.jobs[s.id]},
                  !.jobs = [@ EXCEPT ![s.id] = 0]]
  ELSE st

\* scheduleSite after its await: the ownership rule, and the job it creates.
scheduleSite_Create(st, s, globalConfig) ==
  IF OverrideActive(globalConfig) THEN st
  ELSE IF HasNoCron(s.scheduleCron) THEN st
  ELSE [st EXCEPT !.live = @ \cup {[h |-> st.next, key |-> s.id, cron |-> s.scheduleCron]},
                  !.jobs = [@ EXCEPT ![s.id] = st.next],
                  !.next = @ + 1]

\* stopAllIndividualJobs: stops and forgets every job of the registry.
stopAllIndividualJobs(st) ==
  [st EXCEPT !.live = {j \in @ : \A i \in Ids : st.jobs[i] # j.h},
             !.jobs = [i \in Ids |-> 0]]

\* scheduleGlobalTask, first statement: stop the registered global job.
scheduleGlobalTask_Stop(st) ==
  IF st.globalScheduleJob # 0
  THEN [st EXCEPT !.globals = {g \in @ : g.h # st.globalScheduleJob},
                  !.globalScheduleJob = 0]
  ELSE st

\* scheduleGlobalTask, last statement: the new global job keeps its config.
scheduleGlobalTask_Register(st, config) ==
  [st EXCEPT !.globals = @ \cup {[h |-> st.next, config |-> config]},
             !.globalScheduleJob = st.next,
             !.next = @ + 1]

Call(kind, config, pc, cur, todo) ==
  [kind |-> kind, config |-> config, pc |-> pc, cur |-> cur, todo |-> todo]

\* for (const s of sites) await scheduleSite(s), run up to the next await, or
\* to the end of the function when no site is left.
Advance(st, c, todo) ==
  IF todo # <<>>
  THEN [st |-> scheduleSite_Stop(st, Head(todo)),
        calls |-> {[c EXCEPT !.pc = "findFirst", !.cur = Head(todo), !.todo = Tail(todo)]}]
  ELSE IF c.kind = "scheduleGlobalTask" /\ ~PolicyDisabled(c.config)
  THEN [st |-> scheduleGlobalTask_Register(st, c.config), calls |-> {}]
  ELSE [st |-> st, calls |-> {}]

Commit(st, newCalls) ==
  /\ jobs' = st.jobs
  /\ liveJobs' = st.live
  /\ globalScheduleJob' = st.globalScheduleJob
  /\ globalJobs' = st.globals
  /\ nextHandle' = st.next
  /\ calls' = newCalls

\* The suspended calls are a bag: two calls with the same arguments may wait.
AddCall(c) == calls (+) SetToBag({c})

ReplaceCall(c, new) == (calls (-) SetToBag({c})) (+) SetToBag(new)

\* onSiteUpdated(site): scheduleSite is called and not awaited.
onSiteUpdated(s) ==
  Commit(scheduleSite_Stop(SchedState, s),
         AddCall(Call("onSiteUpdated", NoConfig, "findFirst", s, <<>>)))

\* scheduleAll(): suspended at prisma.site.findMany().
scheduleAll ==
  Commit(SchedState, AddCall(Call("scheduleAll", NoConfig, "findMany", NoSite, <<>>)))

\* scheduleGlobalTask(config) up to its first await; with override it has none.
scheduleGlobalTask(config) ==
  LET st == scheduleGlobalTask_Stop(SchedState)
  IN  IF PolicyDisabled(config)
      THEN Commit(st, AddCall(Call("scheduleGlobalTask", config, "findMany", NoSite, <<>>)))
      ELSE IF config.overrideIndividual
      THEN Commit(scheduleGlobalTask_Register(stopAllIndividualJobs(st), config), calls)
      ELSE Commit(st, AddCall(Call("scheduleGlobalTask", config, "findMany", NoSite, <<>>)))

\* A Site row is saved and the coordinator is told.
SiteUpdated(id, cron) ==
  /\ opsLeft > 0
  /\ opsLeft' = opsLeft - 1
  /\ siteTable' = [siteTable EXCEPT ![id] = cron]
  /\ onSiteUpdated([id |-> id, scheduleCron |-> cron])
  /\ UNCHANGED <<scheduleConfig, derived>>
  /\ UNCHANGED exceptSched

\* The coordinator is asked to schedule every site.
ScheduleAllRequested ==
  /\ opsLeft > 0
  /\ opsLeft' = opsLeft - 1
  /\ scheduleAll
  /\ derived' = TRUE
  /\ UNCHANGED <<siteTable, scheduleConfig>>
  /\ UNCHANGED exceptSched

\* The ScheduleConfig row is saved and the coordinator is told.
ConfigUpdated(config) ==
  /\ opsLeft > 0
  /\ opsLeft' = opsLeft - 1
  /\ scheduleConfig' = config
  /\ scheduleGlobalTask(config)
  /\ derived' = TRUE
  /\ UNCHANGED siteTable
  /\ UNCHANGED exceptSched

\* prisma.site.findMany() answers a suspended scheduleAll or scheduleGlobalTask.
AfterFindMany(c) ==
  /\ c.pc = "findMany"
  /\ LET r == Advance(SchedState, c, findManySites)
     IN  Commit(r.st, ReplaceCall(c, r.calls))
  /\ UNCHANGED <<siteTable, scheduleConfig, opsLeft, derived>>
  /\ UNCHANGED exceptSched

\* prisma.scheduleConfig.findFirst() answers a suspended scheduleSite.
AfterFindFirst(c) ==
  /\ c.pc = "findFirst"
  /\ LET r == Advance(scheduleSite_Create(SchedState, c.cur, scheduleConfig), c, c.todo)
     IN  Commit(r.st, ReplaceCall(c, r.calls))
  /\ UNCHANGED <<siteTable, scheduleConfig, opsLeft, derived>>
  /\ UNCHANGED exceptSched

InitSched ==
  /\ site = SiteRow("other", FALSE, Null, "v1:valid", "", FALSE)
  /\ upstreamHasCreated = TRUE
  /\ CheckIdle
  /\ PureIdle
  /\ siteTable \in [Ids -> Crons]
  /\ scheduleConfig \in Configs \cup {NoConfig}
  /\ jobs = [i \in Ids |-> 0]
  /\ liveJobs = {}
  /\ globalScheduleJob = 0
  /\ globalJobs = {}
  /\ calls = EmptyBag
  /\ nextHandle = 1
  /\ opsLeft = MaxSchedOps
  /\ derived = FALSE
  /\ BatchIdle
  /\ MailIdle
  /\ CallIdle
  /\ LiveIdle
  /\ RaceIdle

NextSched ==
  \/ \E id \in Ids, cron \in Crons : SiteUpdated(id, cron)
  \/ ScheduleAllRequested
  \/ \E config \in Configs : ConfigUpdated(config)
  \/ \E c \in BagToSet(calls) : AfterFindMany(c)
  \/ \E c \in BagToSet(calls) : AfterFindFirst(c)

SpecSched == InitSched /\ [][NextSched]_vars

\* ------------------------------------------------------------- job firings
\* Job firings in one behaviour.
MaxFirings == 2

\* config.interval, in seconds.
Intervals == {1, 2}

\* How long a checkSite call takes.
CheckDurations == {0, 1}

\* The ScheduleConfig a registered global job was created with.
BatchConfigs == [enabled : {TRUE}, overrideIndividual : BOOLEAN, interval : Intervals]

\* What a checkSite call of a job comes to: it throws, or returns without or
\* with a model change.
CheckResults == {"threw", "unchanged", "changed"}

\* The diff checkSite returns for a changed site.
DiffOf(id) == [added |-> <<id>>, removed |-> <<>>, changed |-> <<>>]

\* diff: null in checkSite's return value.
NullDiff == [null |-> TRUE]

\* checkSite's return value (lines 1028-1035).
checkSiteResult(id, outcome) ==
  [ok |-> TRUE, hasChanges |-> outcome = "changed",
   diff |-> IF outcome = "changed" THEN DiffOf(id) ELSE NullDiff, siteName |-> id]

\* The options the global job passes to checkSite.
GlobalJobOptions == [isManual |-> FALSE, skipNotification |-> TRUE]

\* The options an individual job passes to checkSite.
IndividualJobOptions_Suppressed == [isManual |-> FALSE, skipNotification |-> TRUE]

IndividualJobOptions == [isManual |-> FALSE, skipNotification |-> FALSE]

\* The candidate filter of the global job.
SelectSites_AlwaysFiltered(config, allSites) ==
  SelectSeq(allSites, LAMBDA s : HasNoCron(s.scheduleCron))

SelectSites(config, allSites) ==
  IF config.overrideIndividual
  THEN allSites
  ELSE SelectSeq(allSites, LAMBDA s : HasNoCron(s.scheduleCron))

\* Whether the loop sleeps after the i-th of n sites.
SleepsAfter_EverySite(i, n) == TRUE

SleepsAfter(i, n) == i < n

\* Whether the aggregated notification is sent after the loop.
SendsAggregated_OnChangesOnly(sitesWithChanges, failedSites) == Len(sitesWithChanges) > 0

SendsAggregated(sitesWithChanges, failedSites) ==
  Len(sitesWithChanges) > 0 \/ Len(failedSites) > 0

\* A checkSite call of the firing starts: one more row in its log of checks.
StartCheck(id, options) ==
  Append(checks, [site |-> id, options |-> options,
                  start |-> now, end |-> -1, outcome |-> Null])

EndCheck(k, outcome, t) ==
  [checks EXCEPT ![k] = [@ EXCEPT !.end = t, !.outcome = outcome]]

\* The single-site notification a checkSite call sends before it returns.
SingleMails(id, options, outcome) ==
  IF outcome # "threw"
     /\ NotifiesSingleSite(checkSiteResult(id, outcome).hasChanges, options.skipNotification)
  THEN <<[kind |-> "single", siteName |-> id, diff |-> DiffOf(id)]>>
  ELSE <<>>

\* The global cron job fires: the callback starts and awaits findMany.  The
\* logs of checks and notifier calls cover one firing.
GlobalJobFires(g) ==
  /\ firingsLeft > 0
  /\ batch.pc \in {"idle", "done"}
  /\ firingsLeft' = firingsLeft - 1
  /\ batch' = [IdleBatch EXCEPT !.pc = "findMany", !.config = g.config]
  /\ checks' = <<>>
  /\ mails' = <<>>
  /\ UNCHANGED <<indiv, now, lastRun>>
  /\ UNCHANGED exceptBatch

\* Lines 552-573: the candidates; an empty set only updates lastRun.
Batch_SelectSites_EmptySkipsLastRun ==
  /\ batch.pc = "findMany"
  /\ LET sites == SelectSites(batch.config, findManySites)
     IN  IF Len(sites) = 0
         THEN /\ batch' = [batch EXCEPT !.pc = "done"]
              /\ lastRun' = lastRun
         ELSE /\ batch' = [batch EXCEPT !.pc = "loop", !.sites = sites, !.i = 1]
              /\ lastRun' = lastRun
  /\ UNCHANGED <<indiv, now, checks, mails, firingsLeft>>
  /\ UNCHANGED exceptBatch

Batch_SelectSites ==
  /\ batch.pc = "findMany"
  /\ LET sites == SelectSites(batch.config, findManySites)
     IN  IF Len(sites) = 0
         THEN /\ batch' = [batch EXCEPT !.pc = "done", !.lastRunWrites = @ + 1]
              /\ lastRun' = now
         ELSE /\ batch' = [batch EXCEPT !.pc = "loop", !.sites = sites, !.i = 1]
              /\ lastRun' = lastRun
  /\ UNCHANGED <<indiv, now, checks, mails, firingsLeft>>
  /\ UNCHANGED exceptBatch

\* Line 585: checkSite(site, fastify, { skipNotification: true }) is awaited.
Batch_CheckStart ==
  /\ batch.pc = "loop"
  /\ checks' = StartCheck(batch.sites[batch.i].id, GlobalJobOptions)
  /\ batch' = [batch EXCEPT !.pc = "checking"]
  /\ UNCHANGED <<indiv, now, mails, lastRun, firingsLeft>>
  /\ UNCHANGED exceptBatch

\* Lines 587-603: what the loop collects from a check that returned or threw.
Collect(b, id, outcome) ==
  LET result == checkSiteResult(id, outcome)
  IN  [b EXCEPT
         !.sitesWithChanges =
            IF outcome # "threw" /\ result.hasChanges /\ result.diff # NullDiff
            THEN Append(@, [siteName |-> result.siteName, diff |-> result.diff])
            ELSE @,
         !.failedSites =
            IF outcome = "threw"
            THEN Append(@, [siteName |-> id, error |-> "error"])
            ELSE @]

\* Lines 579, 612: the next site of the loop, or what follows the loop.
NextSite(b) ==
  IF b.i < Len(b.sites) THEN [b EXCEPT !.pc = "loop", !.i = @ + 1]
  ELSE IF SendsAggregated(b.sitesWithChanges, b.failedSites) THEN [b EXCEPT !.pc = "notify"]
  ELSE [b EXCEPT !.pc = "lastRun"]

\* Lines 585-609: the check returns or throws, the loop collects and goes on.
Batch_CheckEnd_ThrowEndsLoop(outcome, d) ==
  /\ batch.pc = "checking"
  /\ now' = now + d
  /\ checks' = EndCheck(Len(checks), outcome, now + d)
  /\ mails' = mails \o SingleMails(batch.sites[batch.i].id, GlobalJobOptions, outcome)
  /\ LET b == Collect(batch, batch.sites[batch.i].id, outcome)
     IN  batch' = IF outcome = "threw" THEN NextSite([b EXCEPT !.i = Len(b.sites)])
                  ELSE IF SleepsAfter(b.i, Len(b.sites)) THEN [b EXCEPT !.pc = "sleeping"]
                  ELSE NextSite(b)
  /\ UNCHANGED <<indiv, lastRun, firingsLeft>>
  /\ UNCHANGED exceptBatch

Batch_CheckEnd(outcome, d) ==
  /\ batch.pc = "checking"
  /\ now' = now + d
  /\ checks' = EndCheck(Len(checks), outcome, now + d)
  /\ mails' = mails \o SingleMails(batch.sites[batch.i].id, GlobalJobOptions, outcome)
  /\ LET b == Collect(batch, batch.sites[batch.i].id, outcome)
     IN  batch' = IF SleepsAfter(b.i, Len(b.sites)) THEN [b EXCEPT !.pc = "sleeping"]
                  ELSE NextSite(b)
  /\ UNCHANGED <<indiv, lastRun, firingsLeft>>
  /\ UNCHANGED exceptBatch

\* Lines 606-608: the pacing sleep is over.
Batch_Sleep ==
  /\ batch.pc = "sleeping"
  /\ now' = now + batch.config.interval
  /\ batch' = NextSite([batch EXCEPT !.sleeps = @ + 1])
  /\ UNCHANGED <<indiv, checks, mails, lastRun, firingsLeft>>
  /\ UNCHANGED exceptBatch

\* Lines 612-621: sendAggregatedNotification is called and may fail.
Batch_Notify(outcome) ==
  /\ batch.pc = "notify"
  /\ mails' = Append(mails, [kind |-> "aggregated", outcome |-> outcome,
                             sitesWithChanges |-> batch.sitesWithChanges,
                             failedSites |-> batch.failedSites])
  /\ batch' = [batch EXCEPT !.pc = "lastRun"]
  /\ UNCHANGED <<indiv, now, checks, lastRun, firingsLeft>>
  /\ UNCHANGED exceptBatch

\* Lines 627-630: lastRun is written at the end of the batch.
Batch_UpdateLastRun ==
  /\ batch.pc = "lastRun"
  /\ lastRun' = now
  /\ batch' = [batch EXCEPT !.pc = "done", !.lastRunWrites = @ + 1]
  /\ UNCHANGED <<indiv, now, checks, mails, firingsLeft>>
  /\ UNCHANGED exceptBatch

\* Lines 478-486: an individual job fires and awaits checkSite for its site.
IndividualJobFires(j) ==
  /\ firingsLeft > 0
  /\ indiv.pc \in {"idle", "done"}
  /\ firingsLeft' = firingsLeft - 1
  /\ indiv' = [IdleIndiv EXCEPT !.pc = "checking", !.site = j.key,
                                !.options = IndividualJobOptions, !.started = 1]
  /\ UNCHANGED <<batch, now, checks, mails, lastRun>>
  /\ UNCHANGED exceptBatch

\* The check of the individual job returns, or throws and is logged.
Individual_CheckEnd(outcome, d) ==
  /\ indiv.pc = "checking"
  /\ now' = now + d
  /\ indiv' = [indiv EXCEPT !.pc = "done", !.outcome = outcome,
                            !.mails = SingleMails(indiv.site, indiv.options, outcome)]
  /\ UNCHANGED <<batch, checks, mails, lastRun, firingsLeft>>
  /\ UNCHANGED exceptBatch

\* The jobs scheduleGlobalTask and scheduleSite leave for a stored policy.
JobsFor(config, table) ==
  IF config.overrideIndividual THEN {}
  ELSE {[h |-> i, key |-> i, cron |-> table[i]] : i \in {k \in Ids : ~HasNoCron(table[k])}}

InitBatch ==
  /\ site = SiteRow("other", FALSE, Null, "v1:valid", "", FALSE)
  /\ upstreamHasCreated = TRUE
  /\ CheckIdle
  /\ PureIdle
  /\ siteTable \in [Ids -> Crons]
  /\ scheduleConfig \in BatchConfigs
  /\ liveJobs = JobsFor(scheduleConfig, siteTable)
  /\ jobs = [i \in Ids |-> IF \E j \in liveJobs : j.key = i THEN i ELSE 0]
  /\ globalScheduleJob = MaxId + 1
  /\ globalJobs = {[h |-> MaxId + 1, config |-> scheduleConfig]}
  /\ calls = EmptyBag
  /\ nextHandle = MaxId + 2
  /\ opsLeft = 0
  /\ derived = TRUE
  /\ batch = IdleBatch
  /\ indiv = IdleIndiv
  /\ now = 0
  /\ checks = <<>>
  /\ mails = <<>>
  /\ lastRun = -1
  /\ firingsLeft = MaxFirings
  /\ MailIdle
  /\ CallIdle
  /\ LiveIdle
  /\ RaceIdle

NextBatch ==
  \/ \E g \in globalJobs : GlobalJobFires(g)
  \/ Batch_SelectSites
  \/ Batch_CheckStart
  \/ \E outcome \in CheckResults, d \in CheckDurations : Batch_CheckEnd(outcome, d)
  \/ Batch_Sleep
  \/ \E outcome \in {"sent", "failed"} : Batch_Notify(outcome)
  \/ Batch_UpdateLastRun
  \/ \E j \in liveJobs : IndividualJobFires(j)
  \/ \E outcome \in CheckResults, d \in CheckDurations : Individual_CheckEnd(outcome, d)

SpecBatch == InitBatch /\ [][NextBatch]_vars

\* ---------------------------------------------------------------- notifier
\* EmailConfig.notifyEmails as stored: absent, empty, a JSON list (empty, one
\* address, cut short), a delimited string (two addresses, delimiters only).
RecipientTexts == {Null, "", "[]", "[a]", "[a", "a, b", " ; "}

\* Lines 46-58: the recipient list, or the failure to parse it.
parseRecipients(text) ==
  IF text \in {Null, "", " ; "} THEN [ok |-> TRUE, emails |-> <<>>]
  ELSE IF text = "[]" THEN [ok |-> TRUE, emails |-> <<>>]
  ELSE IF text = "[a]" THEN [ok |-> TRUE, emails |-> <<"a">>]
  ELSE IF text = "[a" THEN [ok |-> FALSE, emails |-> <<>>]
  ELSE [ok |-> TRUE, emails |-> <<"a", "b">>]

EmailConfigs ==
  {NoEmailConfig} \cup
  [enabled : BOOLEAN, notifyEmails : RecipientTexts, resendApiKeyEnc : Envelopes]

\* The diffs a caller passes: empty, with an entry added, removed, changed.
MailDiffs ==
  {NoDiff,
   [added |-> <<1>>, removed |-> <<>>, changed |-> <<>>],
   [added |-> <<>>, removed |-> <<1>>, changed |-> <<>>],
   [added |-> <<>>, removed |-> <<>>, changed |-> <<1>>]}

\* prisma.emailConfig.findFirst() and resend.emails.send(): answer or throw.
CallOutcomes == {"ok", "error"}

NoMail == [threw |-> FALSE, sends |-> 0, to |-> <<>>]

\* Lines 20-74 and 182-228, the same in both entry points: the recipients and
\* the provider client, or the reason there is no email.  A throw inside the
\* outer try is caught at lines 162 and 433 and ends the call the same way as
\* the early returns do.  With an empty key the provider client falls back to
\* the key of the process environment (envKey) and throws when there is none.
prepareMail(config, lookup, envKey) ==
  IF lookup = "error" THEN [ready |-> FALSE, emails |-> <<>>]
  ELSE IF config = NoEmailConfig \/ ~config.enabled THEN [ready |-> FALSE, emails |-> <<>>]
  ELSE LET r == parseRecipients(config.notifyEmails)
           k == decrypt(config.resendApiKeyEnc)
       IN  IF ~r.ok \/ Len(r.emails) = 0 THEN [ready |-> FALSE, emails |-> <<>>]
           ELSE IF k.threw THEN [ready |-> FALSE, emails |-> <<>>]
           ELSE IF k.pt = "" /\ ~envKey THEN [ready |-> FALSE, emails |-> <<>>]
           ELSE [ready |-> TRUE, emails |-> r.emails]

\* sendModelChangeNotification(siteName, diff, fastify).
sendModelChangeNotification_Rethrows(config, diff, lookup, dispatch, envKey) ==
  LET m == prepareMail(config, lookup, envKey)
      hasChanges == Len(diff.added) > 0 \/ Len(diff.removed) > 0
  IN  IF ~m.ready THEN NoMail
      ELSE IF ~hasChanges THEN NoMail
      ELSE [threw |-> dispatch = "error", sends |-> 1, to |-> m.emails]

sendModelChangeNotification(config, diff, lookup, dispatch, envKey) ==
  LET m == prepareMail(config, lookup, envKey)
      hasChanges == Len(diff.added) > 0 \/ Len(diff.removed) > 0
  IN  IF ~m.ready THEN NoMail
      ELSE IF ~hasChanges THEN NoMail
      ELSE [threw |-> FALSE, sends |-> 1, to |-> m.emails]

\* sendAggregatedNotification(siteChanges, fastify, failedSites).
sendAggregatedNotification(config, siteChanges, failedSites, lookup, dispatch, envKey) ==
  LET m == prepareMail(config, lookup, envKey)
  IN  IF ~m.ready THEN NoMail
      ELSE [threw |-> FALSE, sends |-> 1, to |-> m.emails]

\* The notifier is called and runs to its end.
Notifier_Call ==
  /\ mailOut.pc = "idle"
  /\ LET r == IF mailIn.entry = "single"
              THEN sendModelChangeNotification(mailIn.config, mailIn.diff,
                                               mailIn.lookup, mailIn.dispatch,
                                               mailIn.envKey)
              ELSE sendAggregatedNotification(mailIn.config, <<mailIn.diff>>,
                                              mailIn.failedSites,
                                              mailIn.lookup, mailIn.dispatch,
                                              mailIn.envKey)
     IN  mailOut' = [mailOut EXCEPT !.pc = "called", !.threw = r.threw,
                                    !.sends = r.sends, !.to = r.to]
  /\ UNCHANGED mailIn
  /\ UNCHANGED exceptMail

\* run.js 994-1010 and notifier.js 613-630: the caller awaits the notifier
\* inside its own try/catch and goes on to its last statements.
Caller_Continue ==
  /\ mailOut.pc = "called"
  /\ mailOut' = [mailOut EXCEPT !.pc = "done", !.caller = "finished"]
  /\ UNCHANGED mailIn
  /\ UNCHANGED exceptMail

InitNotify ==
  /\ site = SiteRow("other", FALSE, Null, "v1:valid", "", FALSE)
  /\ upstreamHasCreated = TRUE
  /\ CheckIdle
  /\ PureIdle
  /\ SchedIdle
  /\ BatchIdle
  /\ mailIn \in [entry : {"single", "aggregated"}, config : EmailConfigs, diff : MailDiffs,
                 failedSites : {<<>>, <<[siteName |-> 2, error |-> "error"]>>},
                 lookup : CallOutcomes, dispatch : CallOutcomes, envKey : BOOLEAN]
  /\ mailOut = IdleMailOut
  /\ CallIdle
  /\ LiveIdle
  /\ RaceIdle

NextNotify ==
  \/ Notifier_Call
  \/ Caller_Continue

SpecNotify == InitNotify /\ [][NextNotify]_vars

\* ------------------------------------------------------------------ crypto
\* The plaintexts that are stored encrypted, and the nonces of encrypt.
Plaintexts == {"", "secret", "token"}
IVs == 1..MaxId

\* decrypt(payload) is called.
Decrypt_Call ==
  /\ ~resOut.done
  /\ argIn.fn = "decrypt"
  /\ LET r == decryptPayload(argIn.payload)
     IN  resOut' = [done |-> TRUE, threw |-> r.threw, pt |-> r.pt]
  /\ UNCHANGED argIn
  /\ UNCHANGED exceptCall

\* A payload that encrypt made, and then one thing happened to it.
InitCrypto ==
  /\ site = SiteRow("other", FALSE, Null, "v1:valid", "", FALSE)
  /\ upstreamHasCreated = TRUE
  /\ CheckIdle
  /\ PureIdle
  /\ SchedIdle
  /\ BatchIdle
  /\ MailIdle
  /\ \E text \in Plaintexts, iv \in IVs, a \in Alterations :
       argIn = [fn |-> "decrypt", text |-> text, alteration |-> a,
                payload |-> Altered(encrypt(text, iv), a)]
  /\ resOut = NoResult
  /\ LiveIdle
  /\ RaceIdle

NextCrypto == Decrypt_Call

SpecCrypto == InitCrypto /\ [][NextCrypto]_vars

\* ----------------------------------------------------------- billing units
\* Amounts of the common currency unit are fractions n/d, so that the division
\* by the conversion ratio is exact.
Amount(n, d) == [n |-> n, d |-> d]

RECURSIVE GCD(_, _)
GCD(a, b) == IF b = 0 THEN a ELSE GCD(b, a % b)

Reduced(a) == LET g == GCD(a.n, a.d) IN Amount(a.n \div g, a.d \div g)

Plus(a, b) ==
  IF a.d = b.d THEN Amount(a.n + b.n, a.d) ELSE Amount(a.n * b.d + b.n * a.d, a.d * b.d)

SameAmount(a, b) == Reduced(a) = Reduced(b)

\* Lines 180-187 and 363: raw units per currency unit.
conversionRatio(apiType) == 500000

\* What the upstream reports, in its own unit: the current balance and what
\* was used (a field that is absent reads as 0).
RawAmounts == {0, 250000, 500000, 1000000}

BillingApiTypes == {"newapi", "veloera", "donehub", "voapi"}

\* fetchUserInfoNewapi, lines 192-204 (newapi, veloera).
fetchUserInfoNewapi(userData, apiType) ==
  LET quotaInDollars == Amount(userData.quota, conversionRatio(apiType))
      usedQuotaInDollars == Amount(userData.used_quota, conversionRatio(apiType))
  IN  [quota |-> Plus(quotaInDollars, usedQuotaInDollars), usedQuota |-> usedQuotaInDollars]

\* fetchUserInfoDonehub, lines 363-376.
fetchUserInfoDonehub(userData) ==
  LET quotaInDollars == Amount(userData.quota, conversionRatio("donehub"))
      usedQuotaInDollars == Amount(userData.used_quota, conversionRatio("donehub"))
  IN  [quota |-> Plus(quotaInDollars, usedQuotaInDollars), usedQuota |-> usedQuotaInDollars]

\* fetchUserInfoVoapi, lines 309-320: the balances and the used amounts are
\* summed as they come, in the currency unit.
fetchUserInfoVoapi(userData) ==
  LET totalBalance == Plus(Amount(userData.bindBalance, 1), Amount(userData.basicBalance, 1))
      totalUsed == Plus(Amount(userData.usedBindBalance, 1), Amount(userData.usedBasicBalance, 1))
  IN  [quota |-> totalBalance, usedQuota |-> totalUsed]

\* The answer of the user-info endpoint of a variant for a balance and a used
\* amount (voapi reports them under the bind fields, its basic fields are 0).
UserData(apiType, balance, used) ==
  IF apiType = "voapi"
  THEN [bindBalance |-> balance, basicBalance |-> 0,
        usedBindBalance |-> used, usedBasicBalance |-> 0]
  ELSE [quota |-> balance, used_quota |-> used]

\* Lines 737-763 and 795-800: the variant's user info as the snapshot stores it.
StoredBilling(apiType, userData) ==
  LET userInfo == IF apiType \in {"newapi", "veloera"} THEN fetchUserInfoNewapi(userData, apiType)
                  ELSE IF apiType = "donehub" THEN fetchUserInfoDonehub(userData)
                  ELSE fetchUserInfoVoapi(userData)
  IN  [billingLimit |-> userInfo.quota, billingUsage |-> userInfo.usedQuota]

\* The billing request of a check is answered and its result stored.
Billing_Store ==
  /\ ~resOut.done
  /\ argIn.fn = "billing"
  /\ LET b == StoredBilling(argIn.apiType, UserData(argIn.apiType, argIn.balance, argIn.used))
     IN  resOut' = [done |-> TRUE, billingLimit |-> b.billingLimit,
                    billingUsage |-> b.billingUsage]
  /\ UNCHANGED argIn
  /\ UNCHANGED exceptCall

\* A later check of the same site, with the balance and usage of that time.
Billing_Next ==
  /\ resOut.done
  /\ argIn.fn = "billing"
  /\ \E balance \in RawAmounts, used \in RawAmounts :
       /\ used >= argIn.used
       /\ argIn' = [argIn EXCEPT !.balance = balance, !.used = used]
  /\ resOut' = NoResult
  /\ UNCHANGED exceptCall

InitBilling ==
  /\ site = SiteRow("other", FALSE, Null, "v1:valid", "", FALSE)
  /\ upstreamHasCreated = TRUE
  /\ CheckIdle
  /\ PureIdle
  /\ SchedIdle
  /\ BatchIdle
  /\ MailIdle
  /\ argIn \in [fn : {"billing"}, apiType : BillingApiTypes,
                balance : RawAmounts, used : {0}]
  /\ resOut = NoResult
  /\ LiveIdle
  /\ RaceIdle

NextBilling ==
  \/ Billing_Store
  \/ Billing_Next

SpecBilling == InitBilling /\ [][NextBilling]_vars

\* ---------------------------------------------- upstreams that do not answer
\* One check of a site whose upstream may never answer the check-in request,
\* the model request or the billing requests.
Upstreams == [checkin : BOOLEAN, models : BOOLEAN, billing : BOOLEAN]

\* checkin.js 50-60: the check-in request carries no abort signal (fetch has no
\* timeout option), so performCheckIn goes on only when the upstream answers.
Live_CheckInSettled ==
  /\ upstream.checkin
  /\ \E outcome \in CheckInOutcomes : CheckSite_CheckIn(outcome)

\* run.js 558-559, 572 and 146-147, 162 (and the other billing functions): an
\* AbortController ends the model request after 15 s and a billing request
\* after 10 s, so each of them settles, with a failure when nothing answered.
Live_RequestsSettled ==
  \E outcome \in DegradedFetchOutcomes, billing \in BillingOutcomes :
    /\ outcome.ok => upstream.models
    /\ billing = "fulfilled" => upstream.billing
    /\ CheckSite_Fetch(outcome, billing)

InitLive ==
  /\ site \in CheckedSites
  /\ upstreamHasCreated = TRUE
  /\ CheckIdle
  /\ PureIdle
  /\ SchedIdle
  /\ BatchIdle
  /\ MailIdle
  /\ CallIdle
  /\ upstream \in Upstreams
  /\ RaceIdle

NextLive ==
  \/ \E options \in Options : CheckSite_Begin(options, 1)
  \/ Live_CheckInSettled
  \/ CheckSite_CheckinOnly
  \/ Live_RequestsSettled
  \/ CheckSite_Compare

\* The event loop runs every continuation that is ready and every timer fires.
FairLive ==
  /\ WF_vars(Live_CheckInSettled)
  /\ WF_vars(CheckSite_CheckinOnly)
  /\ WF_vars(Live_RequestsSettled)
  /\ WF_vars(CheckSite_Compare)

SpecLive == InitLive /\ [][NextLive]_vars /\ FairLive

\* ------------------------------------------------- two checks of one site
\* A manual and a scheduled check of the same site run at the same time; each
\* await of checkSite after the model request is a point where the other goes on.
Racers == {1, 2}

IdleRacer == [pc |-> "idle", models |-> <<>>, hash |-> EmptyHash, lastSnap |-> 0, snap |-> 0]

RaceSite == SiteRow("other", FALSE, Null, "v1:valid", "", TRUE)

\* Lines 785-847: the model request of check k is answered.
Race_Fetch(k, ids) ==
  /\ racers[k].pc = "idle"
  /\ racers' = [racers EXCEPT ![k].pc = "fetched",
                              ![k].models = fetchModelsFunc(site, ids, upstreamHasCreated, clock)]
  /\ UNCHANGED <<snapshots, modelDiffs>>
  /\ UNCHANGED exceptRace

\* Lines 885-893: the hash, and lastSnap as the table is at this moment.
Race_Lookup(k) ==
  /\ racers[k].pc = "fetched"
  /\ racers' = [racers EXCEPT ![k].pc = "looked",
                              ![k].hash = hashModels(racers[k].models),
                              ![k].lastSnap = findFirstSuccessful(snapshots)]
  /\ UNCHANGED <<snapshots, modelDiffs>>
  /\ UNCHANGED exceptRace

\* Lines 945-962: the snapshot of this check.
Race_Snapshot(k) ==
  /\ racers[k].pc = "looked"
  /\ snapshots' = Append(snapshots,
                    Snapshot(Len(snapshots) + 1, JSONstringify(racers[k].models),
                             racers[k].hash, Null, NoBilling, Null))
  /\ racers' = [racers EXCEPT ![k].pc = "snapped", ![k].snap = Len(snapshots) + 1]
  /\ UNCHANGED modelDiffs
  /\ UNCHANGED exceptRace

\* Lines 964-986: the diff against the lastSnap read earlier and its row.
Race_Diff(k) ==
  /\ racers[k].pc = "snapped"
  /\ LET r == racers[k]
         compare == r.lastSnap # 0 /\ snapshots[r.lastSnap].hash # r.hash
         prev == IF compare THEN JSONparse(snapshots[r.lastSnap].modelsJson) ELSE <<>>
         diff == IF compare THEN computeDiff(prev, r.models) ELSE NoDiff
         hasChanges == compare /\ (Len(diff.added) > 0 \/ Len(diff.removed) > 0)
     IN  modelDiffs' = IF hasChanges
                       THEN Append(modelDiffs,
                              [addedJson |-> JSONstringify(diff.added),
                               removedJson |-> JSONstringify(diff.removed),
                               changedJson |-> JSONstringify(diff.changed),
                               snapshotFromId |-> r.lastSnap,
                               snapshotToId |-> r.snap])
                       ELSE modelDiffs
  /\ racers' = [racers EXCEPT ![k].pc = "done"]
  /\ UNCHANGED snapshots
  /\ UNCHANGED exceptRace

\* The site was never checked, or checked once with success.
RaceHistories == {<<>>} \cup {<<ids>> : ids \in SeqsUpTo(Ids, MaxLen)}

InitRace ==
  /\ site = RaceSite
  /\ upstreamHasCreated = TRUE
  /\ clock = 0
  /\ \E history \in RaceHistories :
       snapshots = [i \in 1..Len(history) |->
                      LET models == fetchModelsFunc(site, history[i], TRUE, 0)
                      IN  Snapshot(i, JSONstringify(models), hashModels(models), Null,
                                   NoBilling, Null)]
  /\ modelDiffs = <<>>
  /\ run = IdleRun
  /\ PureIdle
  /\ SchedIdle
  /\ BatchIdle
  /\ MailIdle
  /\ CallIdle
  /\ LiveIdle
  /\ racers = [k \in Racers |-> IdleRacer]

NextRace ==
  \E k \in Racers :
    \/ \E ids \in SeqsUpTo(Ids, MaxLen) : Race_Fetch(k, ids)
    \/ Race_Lookup(k)
    \/ Race_Snapshot(k)
    \/ Race_Diff(k)

SpecRace == InitRace /\ [][NextRace]_vars

\* ------------------------------------------------------ failed model fetch
\* What comes back for the model request: nothing (timeout, network error) or
\* an answer with a status and a body.
Statuses == {"200", "404", "500"}
Bodies == {"models", "no list", "not json"}

Responses ==
  {[answered |-> FALSE, status |-> Null, body |-> Null]} \cup
  [answered : {TRUE}, status : Statuses, body : Bodies]

resOk(res) == res.status = "200"

\* The Error that the try block of a model fetch function throws, by its
\* message (Null: it throws nothing).  fetchModels (lines 577-590) parses the
\* body before it looks at the status; fetchModelsNewapi (87-99) and
\* fetchModelsDonehub (233-247) look at the status first.
fetchError(apiType, res) ==
  IF ~res.answered THEN "aborted"
  ELSE IF apiType \in {"other", "voapi"}
  THEN IF res.body = "not json" THEN "Invalid JSON response"
       ELSE IF ~resOk(res) THEN "HTTP status and body"
       ELSE Null
  ELSE IF ~resOk(res) THEN "HTTP status and body"
       ELSE IF res.body = "not json" THEN "Unexpected token"
       ELSE IF res.body = "no list" THEN "Invalid response format"
       ELSE Null

\* Lines 602-617, 123-134 and 258-270: what the catch block throws instead.
fetchThrown(error) ==
  [error |-> error, rawResponse |-> Null, statusCode |-> Null,
   responseTime |-> "elapsed", errorMessage |-> error]

\* A model fetch function is called and returns or throws.
FetchModels_Call ==
  /\ ~resOut.done
  /\ argIn.fn = "fetchModels"
  /\ LET error == fetchError(argIn.apiType, argIn.response)
     IN  resOut' = IF error = Null
                   THEN [done |-> TRUE, threw |-> FALSE, e |-> fetchThrown(Null),
                         snapshot |-> FALSE]
                   ELSE [done |-> TRUE, threw |-> TRUE, e |-> fetchThrown(error),
                         snapshot |-> FALSE]
  /\ UNCHANGED argIn
  /\ UNCHANGED exceptCall

\* run.js 849-870: the error snapshot takes its fields from the thrown value.
FetchModels_ErrorSnapshot ==
  /\ resOut.done
  /\ argIn.fn = "fetchModels"
  /\ resOut.threw
  /\ ~resOut.snapshot
  /\ resOut' = [resOut EXCEPT !.snapshot = TRUE]
  /\ UNCHANGED argIn
  /\ UNCHANGED exceptCall

\* The fields of the error snapshot once it is written.
ErrorSnapshotOf(e) ==
  [rawResponse |-> e.rawResponse, errorMessage |-> ErrorSnapshotMessage(e),
   statusCode |-> e.statusCode, responseTime |-> e.responseTime]

InitFetchError ==
  /\ site = SiteRow("other", FALSE, Null, "v1:valid", "", FALSE)
  /\ upstreamHasCreated = TRUE
  /\ CheckIdle
  /\ PureIdle
  /\ SchedIdle
  /\ BatchIdle
  /\ MailIdle
  /\ argIn \in [fn : {"fetchModels"}, apiType : ApiTypes, response : Responses]
  /\ resOut = NoResult
  /\ LiveIdle
  /\ RaceIdle

NextFetchError ==
  \/ FetchModels_Call
  \/ FetchModels_ErrorSnapshot

SpecFetchError == InitFetchError /\ [][NextFetchError]_vars

\* ------------------------------------------------- sites of unlimited quota
\* Successive checks of a site of any variant and billing token, with and
\* without the unlimitedQuota flag.
QuotaSites ==
  {SiteRow(t, FALSE, Null, "v1:valid", b, u) : t \in ApiTypes, b \in Envelopes, u \in BOOLEAN}

InitQuota ==
  /\ site \in QuotaSites
  /\ upstreamHasCreated = TRUE
  /\ CheckIdle
  /\ PureIdle
  /\ SchedIdle
  /\ BatchIdle
  /\ MailIdle
  /\ CallIdle
  /\ LiveIdle
  /\ RaceIdle

NextQuota ==
  \/ \E options \in Options : CheckSite_Begin(options, MaxChecks)
  \/ \E outcome \in DegradedFetchOutcomes, billing \in BillingOutcomes :
       CheckSite_Fetch(outcome, billing)
  \/ CheckSite_Compare

SpecQuota == InitQuota /\ [][NextQuota]_vars

\* ------------------------------------------------------------ properties
IsErrorSnap(s) == s.errorMessage # Null
IsCheckinOnlySnap(s) == s.errorMessage = Null /\ s.hash = EmptyHash
IsFetchSnap(s) == s.errorMessage = Null /\ s.hash # EmptyHash
SnapIds(s) == {s.modelsJson[i][1] : i \in 1..Len(s.modelsJson)}

\* The latest snapshot before row n that a successful model fetch wrote.
LastFetchSnapBefore(n) ==
  LET ok == {i \in 1..(n - 1) : IsFetchSnap(snapshots[i])}
  IN  IF ok = {} THEN 0 ELSE CHOOSE i \in ok : \A j \in ok : j <= i

DiffsTo(n) == {k \in 1..Len(modelDiffs) : modelDiffs[k].snapshotToId = n}

Finished == run.pc \in {"returned", "threw"}
FetchReturned == run.pc = "returned" /\ run.didFetch

\* C1: every call of checkSite has created exactly one snapshot when it
\* returns or throws, on every path.
C1_OneSnapshotPerCheck ==
  Finished => Len(snapshots) = run.startSnaps + 1

\* C2: a checkin-only snapshot is never the 'from' snapshot of a ModelDiff; a
\* model check compares against the most recent snapshot of a real successful
\* fetch and never reports that snapshot's models as added.
C2_CheckinOnlyOutsideLineage ==
  /\ \A k \in 1..Len(modelDiffs) :
       ~IsCheckinOnlySnap(snapshots[modelDiffs[k].snapshotFromId])
  /\ FetchReturned =>
       /\ run.lastSnap = LastFetchSnapBefore(run.snap)
       /\ run.lastSnap # 0 =>
            IdsOf(run.diff.added) \cap SnapIds(snapshots[LastFetchSnapBefore(run.snap)]) = {}

\* C3: the snapshot a check compares against is the most recent one whose
\* errorMessage is null; an error snapshot is never the 'from' or 'to' of a
\* ModelDiff; failed checks between two successful fetches with the same
\* model ids produce no ModelDiff.
C3_ErrorSnapshotsOutsideLineage ==
  /\ \A k \in 1..Len(modelDiffs) :
       /\ ~IsErrorSnap(snapshots[modelDiffs[k].snapshotFromId])
       /\ ~IsErrorSnap(snapshots[modelDiffs[k].snapshotToId])
  /\ FetchReturned =>
       /\ run.lastSnap # 0 => snapshots[run.lastSnap].errorMessage = Null
       /\ \A j \in (run.lastSnap + 1)..(run.snap - 1) : IsErrorSnap(snapshots[j])
  /\ \A i \in 1..Len(snapshots), j \in 1..Len(snapshots) :
       ( /\ i + 1 < j
         /\ IsFetchSnap(snapshots[i])
         /\ IsFetchSnap(snapshots[j])
         /\ \A m \in (i + 1)..(j - 1) : IsErrorSnap(snapshots[m])
         /\ SnapIds(snapshots[i]) = SnapIds(snapshots[j]) )
       => DiffsTo(j) = {}

C3_Witness ==
  /\ FetchReturned
  /\ run.snap >= 3
  /\ IsFetchSnap(snapshots[run.snap - 2])
  /\ IsErrorSnap(snapshots[run.snap - 1])
  /\ SnapIds(snapshots[run.snap - 2]) = IdsOf(run.models)
  /\ SnapIds(snapshots[run.snap - 2]) # {}
  /\ snapshots[run.snap - 2].hash # run.hash
  /\ run.lastSnap = run.snap - 2

\* C4: the first successful check of a site returns hasChanges = false,
\* creates no ModelDiff and triggers no notification, whatever preceded it.
C4_FirstSuccessIsBaseline ==
  (FetchReturned /\ LastFetchSnapBefore(run.snap) = 0) =>
    /\ ~run.hasChanges
    /\ run.notified = 0
    /\ DiffsTo(run.snap) = {}

\* C5: a successful fetch whose ids differ from the prior successful
\* snapshot's returns hasChanges = true, added = ids only in the new list,
\* removed = ids only in the old list, creates exactly one ModelDiff from the
\* prior successful snapshot to the new one, and requests one notification
\* unless suppressed.
C5_ChangedIdsMakeOneDiff ==
  LET p == LastFetchSnapBefore(run.snap)
  IN  (FetchReturned /\ p # 0 /\ SnapIds(snapshots[p]) # IdsOf(run.models)) =>
        /\ run.hasChanges
        /\ IdsOf(run.diff.added) = IdsOf(run.models) \ SnapIds(snapshots[p])
        /\ IdsOf(run.diff.removed) = SnapIds(snapshots[p]) \ IdsOf(run.models)
        /\ Cardinality(DiffsTo(run.snap)) = 1
        /\ \A k \in DiffsTo(run.snap) : modelDiffs[k].snapshotFromId = p
        /\ run.notified = IF run.skipNotification THEN 0 ELSE 1

\* C6: two consecutive successful fetches with the same set of model ids
\* create no ModelDiff and send no notification, whatever the order and the
\* other attributes of the entries; a ModelDiff has a non-empty added or
\* removed list and an empty changed list.
C6_SameIdsMakeNoDiff ==
  LET p == LastFetchSnapBefore(run.snap)
  IN  /\ \A k \in 1..Len(modelDiffs) :
           /\ modelDiffs[k].addedJson # <<>> \/ modelDiffs[k].removedJson # <<>>
           /\ modelDiffs[k].changedJson = <<>>
      /\ (FetchReturned /\ p # 0 /\ SnapIds(snapshots[p]) = IdsOf(run.models)) =>
           /\ DiffsTo(run.snap) = {}
           /\ run.notified = 0
           /\ ~run.hasChanges

Range(list) == {list[i] : i \in 1..Len(list)}

\* C7 as stated: added is exactly the entries of B whose id does not occur in
\* A, removed exactly the entries of A whose id does not occur in B, the two
\* are disjoint by id, and computeDiff(A, A) has empty added and removed.
C7_DiffIsEveryAbsentEntry ==
  pOut.done =>
    /\ Range(pOut.diff.added) = {e \in Range(pB) : e.id \notin IdsOf(pA)}
    /\ Range(pOut.diff.removed) = {e \in Range(pA) : e.id \notin IdsOf(pB)}
    /\ IdsOf(pOut.diff.added) \cap IdsOf(pOut.diff.removed) = {}
    /\ pOut.self.added = <<>> /\ pOut.self.removed = <<>>

\* The last entry of list with this id.
LastWithId(list, e) ==
  \E i \in 1..Len(list) :
    /\ list[i] = e
    /\ \A j \in (i + 1)..Len(list) : list[j].id # e.id

\* C7 amended: added holds one entry for each id of B that does not occur in
\* A, the last entry of B with that id; removed likewise for A against B;
\* the two are disjoint by id; computeDiff(A, A) has empty added and removed.
C7_DiffIsLastEntryPerAbsentId ==
  pOut.done =>
    /\ IdsOf(pOut.diff.added) = IdsOf(pB) \ IdsOf(pA)
    /\ Len(pOut.diff.added) = Cardinality(IdsOf(pB) \ IdsOf(pA))
    /\ \A k \in 1..Len(pOut.diff.added) : LastWithId(pB, pOut.diff.added[k])
    /\ IdsOf(pOut.diff.removed) = IdsOf(pA) \ IdsOf(pB)
    /\ Len(pOut.diff.removed) = Cardinality(IdsOf(pA) \ IdsOf(pB))
    /\ \A k \in 1..Len(pOut.diff.removed) : LastWithId(pA, pOut.diff.removed[k])
    /\ IdsOf(pOut.diff.added) \cap IdsOf(pOut.diff.removed) = {}
    /\ pOut.self.added = <<>> /\ pOut.self.removed = <<>>
    /\ pOut.diff.changed = <<>>

C7_Witness ==
  /\ pOut.done
  /\ Len(pOut.diff.added) > 0
  /\ Len(pOut.diff.removed) > 0
  /\ \E i \in 1..Len(pB), j \in 1..Len(pB) :
       i < j /\ pB[i].id = pB[j].id /\ pB[i] # pB[j] /\ pB[i].id \notin IdsOf(pA)

Count(list, e) == Cardinality({i \in 1..Len(list) : list[i] = e})
IsPermutation(a, b) ==
  /\ Len(a) = Len(b)
  /\ \A e \in Range(a) \cup Range(b) : Count(a, e) = Count(b, e)

\* C8: for every list L and every permutation P of L, hashModels(L) equals
\* hashModels(P).
C8_HashOrderIndependent ==
  (pOut.done /\ IsPermutation(pA, pB)) => pOut.hashA = pOut.hashB

SameIdCounts(a, b) ==
  /\ Len(a) = Len(b)
  /\ \A id \in Ids : Cardinality({i \in 1..Len(a) : a[i][1] = id})
                     = Cardinality({i \in 1..Len(b) : b[i][1] = id})

\* C9: for every provider variant the list a successful fetch returns and
\* stores is sorted ascending by id, and two successful fetches whose
\* answers hold the same ids in another order store the same hash.
C9_StoredListSorted ==
  /\ (run.pc \in {"compare", "returned"} /\ run.didFetch) => IsSortedById(run.models)
  /\ \A i \in 1..Len(snapshots) :
       IsFetchSnap(snapshots[i]) => IsSortedById(JSONparse(snapshots[i].modelsJson))
  /\ \A i \in 1..Len(snapshots), j \in 1..Len(snapshots) :
       ( /\ IsFetchSnap(snapshots[i]) /\ IsFetchSnap(snapshots[j])
         /\ SameIdCounts(snapshots[i].modelsJson, snapshots[j].modelsJson) )
       => snapshots[i].hash = snapshots[j].hash

ModeOrBoth(s) == IF s.checkInMode = Null THEN "both" ELSE s.checkInMode

\* C10: a check that no decryption error aborts performs the model fetch
\* exactly when it is manual or the mode is model-only or both (default
\* both), and performs check-in exactly when the site is of the variant that
\* supports check-in, has it enabled, and the run is manual or the mode is
\* checkin-only or both.
C10_Gating ==
  (Finished /\ ~run.decryptFailed) =>
    /\ run.didFetch = (run.isManual \/ ModeOrBoth(site) \in {"model", "both"})
    /\ run.didCheckIn = ( /\ site.apiType = "veloera"
                          /\ site.enableCheckIn
                          /\ (run.isManual \/ ModeOrBoth(site) \in {"checkin", "both"}) )

C10_Witness ==
  /\ run.pc = "returned"
  /\ run.isManual
  /\ site.apiType = "veloera"
  /\ site.enableCheckIn
  /\ site.checkInMode = "model"
  /\ run.didCheckIn
  /\ run.didFetch

\* C11: a run that skips the model check issues no model request and no
\* billing request, writes one snapshot with an empty model list, an empty
\* hash, null billing fields and the check-in outcome, creates no ModelDiff,
\* sends no notification and returns hasChanges = false.
C11_CheckinOnlyRun ==
  (run.pc = "returned" /\ ~run.needCheckModels) =>
    /\ ~run.didFetch
    /\ ~run.didBilling
    /\ Len(snapshots) = run.startSnaps + 1
    /\ LET s == snapshots[Len(snapshots)]
       IN  /\ s.modelsJson = EmptyJson
           /\ s.hash = EmptyHash
           /\ s.errorMessage = Null
           /\ s.billingLimit = Null /\ s.billingUsage = Null /\ s.billingError = Null
           /\ s.checkInSuccess = run.checkInSuccess
           /\ run.didCheckIn <=> s.checkInSuccess # Null
    /\ Len(modelDiffs) = run.startDiffs
    /\ run.notified = 0
    /\ ~run.hasChanges

C11_Witness ==
  /\ run.pc = "returned"
  /\ ~run.needCheckModels
  /\ run.didCheckIn
  /\ \E i \in 1..run.startSnaps : IsFetchSnap(snapshots[i]) /\ SnapIds(snapshots[i]) # {}

\* No scheduling call is suspended at an await.
Quiescent == calls = EmptyBag

LiveJobsOf(i) == {j \in liveJobs : j.key = i}

\* C12: whenever the stored global policy is enabled with overrideIndividual
\* and every scheduling operation that was started has completed, no
\* individual site job is live.
C12_OverrideLeavesNoIndividualJob ==
  (OverrideActive(scheduleConfig) /\ Quiescent) => liveJobs = {}

\* C13: whenever the global policy is disabled, or enabled without
\* overrideIndividual, and re-derivation has completed, a site has a live
\* individual job if and only if its cron expression is non-empty after
\* trimming, and no global job is live while the policy is disabled.
C13_IndividualJobIffCron ==
  (~OverrideActive(scheduleConfig) /\ derived /\ Quiescent) =>
    /\ \A i \in Ids : (LiveJobsOf(i) # {}) <=> ~HasNoCron(siteTable[i])
    /\ PolicyDisabled(scheduleConfig) => globalJobs = {}

\* The jobs of every site but S and the global job are the same after the step.
OtherJobsUnchanged(S) ==
  /\ \A t \in Ids \ {S} :
       /\ jobs'[t] = jobs[t]
       /\ {j \in liveJobs' : j.key = t} = {j \in liveJobs : j.key = t}
  /\ globalScheduleJob' = globalScheduleJob
  /\ globalJobs' = globalJobs

ChecksOf(id) == {k \in 1..Len(checks) : checks[k].site = id}
ChecksWith(outcome) == {k \in 1..Len(checks) : checks[k].outcome = outcome}
BatchOver == batch.pc \in {"notify", "lastRun", "done"}
AggregatedMails == {k \in 1..Len(mails) : mails[k].kind = "aggregated"}

C16_SequentialWithPacing ==
  /\ \A k \in 1..(Len(checks) - 1) :
       /\ checks[k].end # -1
       /\ checks[k + 1].start >= checks[k].end + batch.config.interval
  /\ Cardinality({k \in 1..Len(checks) : checks[k].end = -1}) <= 1
  /\ batch.pc = "loop" => batch.sleeps = Len(checks)
  /\ batch.pc \in {"checking", "sleeping"} => batch.sleeps = Len(checks) - 1
  /\ (BatchOver /\ Len(batch.sites) > 0) => batch.sleeps = Len(batch.sites) - 1

C16_Witness ==
  /\ batch.pc = "done"
  /\ Len(batch.sites) = 2
  /\ Len(checks) = 2
  /\ batch.sleeps = 1
  /\ checks[2].start > checks[1].end

\* C17: a site check that throws is caught and recorded in failedSites with
\* the site's name and the error, and the sites after it are still checked.
C17_FailureRecordedBatchGoesOn ==
  /\ \A k \in ChecksWith("threw") :
       Cardinality({f \in 1..Len(batch.failedSites) :
                      batch.failedSites[f] = [siteName |-> checks[k].site, error |-> "error"]}) = 1
  /\ Len(batch.failedSites) = Cardinality(ChecksWith("threw"))
  /\ BatchOver =>
       /\ Len(checks) = Len(batch.sites)
       /\ \A i \in 1..Len(batch.sites) : checks[i].site = batch.sites[i].id

C17_Witness ==
  /\ batch.pc = "done"
  /\ Len(checks) = 2
  /\ checks[1].outcome = "threw"
  /\ checks[2].outcome = "changed"

\* C18: a finished batch has called the aggregated notification exactly once
\* if a site changed or failed, with every changed site's diff and every
\* failed site's error, and not at all otherwise; no single-site notification
\* is sent for a site the batch checked.
C18_OneAggregatedNotification ==
  /\ \A k \in 1..Len(mails) : mails[k].kind # "single"
  /\ Cardinality(AggregatedMails) <= 1
  /\ batch.pc \in {"lastRun", "done"} =>
       IF ChecksWith("changed") \cup ChecksWith("threw") = {}
       THEN AggregatedMails = {}
       ELSE /\ Cardinality(AggregatedMails) = 1
            /\ \A m \in AggregatedMails :
                 /\ Len(mails[m].sitesWithChanges) = Cardinality(ChecksWith("changed"))
                 /\ Len(mails[m].failedSites) = Cardinality(ChecksWith("threw"))
                 /\ \A k \in ChecksWith("changed") :
                      \E e \in 1..Len(mails[m].sitesWithChanges) :
                        mails[m].sitesWithChanges[e] =
                          [siteName |-> checks[k].site, diff |-> DiffOf(checks[k].site)]
                 /\ \A k \in ChecksWith("threw") :
                      \E e \in 1..Len(mails[m].failedSites) :
                        mails[m].failedSites[e] =
                          [siteName |-> checks[k].site, error |-> "error"]

C18_Witness ==
  /\ batch.pc = "done"
  /\ ChecksWith("changed") = {}
  /\ ChecksWith("threw") # {}
  /\ ChecksWith("unchanged") # {}
  /\ Cardinality(AggregatedMails) = 1

\* C19: every firing that reaches the end of its batch has written lastRun,
\* whether the candidate set was empty, sites failed, or the aggregated
\* notification succeeded or failed.
C19_LastRunUpdated ==
  batch.pc = "done" => (batch.lastRunWrites = 1 /\ lastRun # -1)

C19_Witness ==
  /\ batch.pc = "done"
  /\ Len(batch.sites) = 0
  /\ lastRun # -1

\* C20: a firing of an individual job runs exactly one check of its site, as
\* a scheduled check with the notification not suppressed: a change is
\* notified by a single-site email and is in no digest.
C20_IndividualFiringNotifiesAlone ==
  indiv.pc = "done" =>
    /\ indiv.started = 1
    /\ ~isManualTrigger(indiv.options)
    /\ ~indiv.options.skipNotification
    /\ indiv.mails = IF indiv.outcome = "changed"
                     THEN <<[kind |-> "single", siteName |-> indiv.site,
                             diff |-> DiffOf(indiv.site)]>>
                     ELSE <<>>
    /\ \A e \in 1..Len(batch.sitesWithChanges) :
         batch.sitesWithChanges[e].siteName # indiv.site
    /\ \A m \in AggregatedMails : \A e \in 1..Len(mails[m].sitesWithChanges) :
         mails[m].sitesWithChanges[e].siteName # indiv.site

C20_Witness ==
  /\ indiv.pc = "done"
  /\ indiv.outcome = "changed"
  /\ batch.pc = "done"
  /\ AggregatedMails # {}

\* The single-site notifier was called and has returned.
SingleCalled == mailIn.entry = "single" /\ mailOut.pc # "idle"

MailHasChanges == Len(mailIn.diff.added) > 0 \/ Len(mailIn.diff.removed) > 0

MailEnabled == mailIn.config # NoEmailConfig /\ mailIn.config.enabled

\* C21: single-site notify sends exactly one email when the diff has an added
\* or removed entry and email is enabled with at least one recipient, and
\* sends nothing when added and removed are both empty, when the email
\* configuration is missing or disabled, or when the recipient list is empty.
C21_SingleNotifySendsOne ==
  SingleCalled =>
    /\ (MailHasChanges /\ MailEnabled /\ mailIn.lookup = "ok"
        /\ Len(parseRecipients(mailIn.config.notifyEmails).emails) > 0)
       => mailOut.sends = 1
    /\ ~MailHasChanges => mailOut.sends = 0
    /\ ~MailEnabled => mailOut.sends = 0
    /\ (MailEnabled /\ Len(parseRecipients(mailIn.config.notifyEmails).emails) = 0)
       => mailOut.sends = 0

\* C22: neither notifier entry point propagates an error to its caller,
\* whichever of the config lookup, the recipient parsing, the key decryption
\* and the dispatch fails; the caller goes on and finishes.
C22_NotifierNeverThrows ==
  /\ mailOut.pc # "idle" => ~mailOut.threw
  /\ mailOut.pc = "done" => mailOut.caller = "finished"

C22_Witness ==
  /\ mailOut.pc = "done"
  /\ mailIn.entry = "single"
  /\ mailIn.dispatch = "error"
  /\ mailOut.sends = 1

\* The check ended in the catch block of the model request.
FetchFailed == run.pc = "threw" /\ run.didFetch

\* C23: when the model fetch fails the check writes one error snapshot (an
\* error message, the empty model list), creates no ModelDiff, sends no
\* single-site notification, and the error reaches the caller of checkSite.
C23_FetchFailureRecorded ==
  /\ FetchFailed =>
       /\ Len(snapshots) = run.startSnaps + 1
       /\ run.snap = Len(snapshots)
       /\ snapshots[run.snap].errorMessage # Null
       /\ snapshots[run.snap].modelsJson = EmptyJson
       /\ Len(modelDiffs) = run.startDiffs
       /\ run.notified = 0
  /\ (run.snap # 0 /\ snapshots[run.snap].errorMessage # Null) => run.pc = "threw"

C23_Witness ==
  /\ FetchFailed
  /\ run.startSnaps > 0
  /\ snapshots[run.snap].errorMessage = "fetch failed"

\* The check answered its caller after a model request that succeeded.
FetchedAndReturned == run.pc = "returned" /\ run.didFetch

\* C24: a failed billing request or check-in never aborts a check: when the
\* model fetch succeeds the check writes a successful snapshot that carries
\* the billing error or the check-in failure, and the diff, the ModelDiff row
\* and the notification are what the model lists alone determine.
C24_BillingAndCheckInFailuresDegrade ==
  /\ run.fetchOk => run.pc \in {"compare", "returned"}
  /\ FetchedAndReturned =>
       LET snap == snapshots[run.snap]
           compare == run.lastSnap # 0 /\ snapshots[run.lastSnap].hash # run.hash
           diff == IF compare
                   THEN computeDiff(JSONparse(snapshots[run.lastSnap].modelsJson), run.models)
                   ELSE NoDiff
           hasChanges == Len(diff.added) > 0 \/ Len(diff.removed) > 0
       IN  /\ snap.errorMessage = Null
           /\ snap.billingError = run.billing.error
           /\ (run.didBilling /\ snap.billingLimit = Null) => snap.billingError # Null
           /\ snap.checkInSuccess = run.checkInSuccess
           /\ run.diff = diff
           /\ run.hasChanges = hasChanges
           /\ Len(modelDiffs) = run.startDiffs + (IF hasChanges THEN 1 ELSE 0)
           /\ run.notified = (IF hasChanges /\ ~run.skipNotification THEN 1 ELSE 0)

C24_Witness ==
  /\ FetchedAndReturned
  /\ run.didBilling
  /\ run.billing.error # Null
  /\ snapshots[run.snap].billingError # Null
  /\ run.didCheckIn
  /\ run.checkInSuccess = "false"
  /\ run.hasChanges
  /\ run.notified = 1

\* The notifier reached the decryption of the provider key and it failed.
ProviderKeyRejected ==
  /\ mailOut.pc # "idle"
  /\ mailIn.lookup = "ok"
  /\ MailEnabled
  /\ Len(parseRecipients(mailIn.config.notifyEmails).emails) > 0
  /\ decrypt(mailIn.config.resendApiKeyEnc).threw

\* C25: a stored credential that does not decrypt is fatal to the operation
\* that needed it; here the email provider key: the failure reaches the caller
\* of the notifier and is never turned into a silent skip of the notification.
C25_DecryptFailureIsFatal == ProviderKeyRejected => mailOut.threw

\* C26: decrypt fails closed: for every payload that is not an envelope made
\* by encrypt under the same key (empty, missing, another version prefix,
\* truncated, altered nonce, tag or ciphertext) it raises an error and returns
\* no plaintext, in particular not the empty string.
C26_DecryptFailsClosed ==
  (resOut.done /\ argIn.fn = "decrypt" /\ argIn.alteration # "none") => resOut.threw

\* The currency unit of a variant's raw amounts: the conversion ratio, and
\* for voapi the currency unit itself.
UnitsPerCurrency(apiType) == IF apiType = "voapi" THEN 1 ELSE conversionRatio(apiType)

\* C27: for every variant that reports billing (newapi, veloera, donehub,
\* voapi) the stored limit is the current balance plus the used amount in the
\* common currency unit and the stored usage is the used amount; a newapi
\* balance of 1000000 with 250000 used stores 2.50 and 0.50.
C27_LimitIsBalancePlusUsed ==
  (resOut.done /\ argIn.fn = "billing") =>
    /\ SameAmount(resOut.billingLimit,
                  Amount(argIn.balance + argIn.used, UnitsPerCurrency(argIn.apiType)))
    /\ SameAmount(resOut.billingUsage, Amount(argIn.used, UnitsPerCurrency(argIn.apiType)))
    /\ (argIn.apiType = "newapi" /\ argIn.balance = 1000000 /\ argIn.used = 250000)
       => /\ SameAmount(resOut.billingLimit, Amount(250, 100))
          /\ SameAmount(resOut.billingUsage, Amount(50, 100))

\* The most recent of the first n snapshots that carries a check-in outcome
\* (0: none does).
RECURSIVE LastWithCheckIn(_, _)
LastWithCheckIn(snaps, n) ==
  IF n = 0 THEN 0
  ELSE IF snaps[n].checkInSuccess # Null THEN n
  ELSE LastWithCheckIn(snaps, n - 1)

\* C28: check-in change detection compares the outcome of this check with the
\* most recent snapshot that has a check-in outcome, from a model-fetch run or
\* a checkin-only run, whichever snapshot the model diff is made against.
C28_CheckInComparedWithLastOutcome ==
  (FetchedAndReturned /\ run.didCheckIn) =>
    LET ref == LastWithCheckIn(snapshots, run.startSnaps)
    IN  run.checkInChanged =
          (IF ref = 0 THEN TRUE ELSE snapshots[ref].checkInSuccess # run.checkInSuccess)

\* C29: every outbound call (models, billing, check-in) is cancelled after its
\* own timeout and the timeout surfaces as a normal failure, so every site
\* check eventually finishes, also when the upstream never answers.
C29_EveryCheckFinishes == [](run.pc # "idle" => <>(run.pc \in {"returned", "threw"}))

\* The latest of the first n snapshots with errorMessage null (0: none).
RECURSIVE LatestSuccessfulBefore(_, _)
LatestSuccessfulBefore(snaps, n) ==
  IF n = 0 THEN 0
  ELSE IF snaps[n].errorMessage = Null THEN n
  ELSE LatestSuccessfulBefore(snaps, n - 1)

\* C30: every ModelDiff row links two consecutive successful snapshots of the
\* site: its 'from' is the latest successful snapshot written before its 'to',
\* so no two rows have the same 'from', also when a manual and a scheduled
\* check of the site interleave.
C30_DiffLinksConsecutiveSnapshots ==
  /\ \A i \in 1..Len(modelDiffs) :
       modelDiffs[i].snapshotFromId =
         LatestSuccessfulBefore(snapshots, modelDiffs[i].snapshotToId - 1)
  /\ \A i, j \in 1..Len(modelDiffs) :
       modelDiffs[i].snapshotFromId = modelDiffs[j].snapshotFromId => i = j

\* The three transitions of a check-in outcome against a prior outcome
\* (Null: none is recorded).
CheckInTransition(prior, current) ==
  \/ prior = Null /\ current # Null
  \/ prior # Null /\ current # Null /\ prior # current
  \/ current = "false" /\ CheckInErrorOf(current) # CheckInErrorOf(prior)

\* C31: the check-in transition flag of a check that performed check-in is
\* true exactly when there is no prior recorded check-in result and this check
\* has one, or both success flags are recorded and differ, or this attempt
\* failed with another error message than the prior one; it is false whenever
\* the check performed no check-in.
C31_CheckInTransitionFlag ==
  run.pc = "returned" =>
    LET ref == LastWithCheckIn(snapshots, run.startSnaps)
        prior == IF ref = 0 THEN Null ELSE snapshots[ref].checkInSuccess
    IN  IF run.didCheckIn
        THEN run.checkInChanged = CheckInTransition(prior, run.checkInSuccess)
        ELSE run.checkInChanged = FALSE

\* C32: when a model fetch fails because the upstream answered with a non-2xx
\* status, the error raised and the error snapshot written for it carry the
\* HTTP status, the raw body of the answer and the elapsed time; status and
\* body are null only when no response was received.
C32_ErrorCarriesStatusAndBody ==
  (resOut.done /\ argIn.fn = "fetchModels" /\ resOut.threw) =>
    /\ (argIn.response.answered /\ ~resOk(argIn.response)) =>
         /\ resOut.e.statusCode = argIn.response.status
         /\ resOut.e.rawResponse = argIn.response.body
         /\ resOut.e.responseTime # Null
         /\ resOut.snapshot =>
              /\ ErrorSnapshotOf(resOut.e).statusCode = argIn.response.status
              /\ ErrorSnapshotOf(resOut.e).rawResponse = argIn.response.body
              /\ ErrorSnapshotOf(resOut.e).responseTime # Null
    /\ resOut.e.statusCode = Null => ~argIn.response.answered

\* C33: for a site with the unlimitedQuota flag a check issues no billing
\* request, whatever the variant, and the snapshot it writes has null billing
\* limit, usage and error; the model fetch, the diff and the notification are
\* what they are without the flag.
C33_UnlimitedQuotaSkipsBilling ==
  site.unlimitedQuota =>
    /\ ~run.didBilling
    /\ ~run.decryptFailed
    /\ \A i \in 1..Len(snapshots) :
         /\ snapshots[i].billingLimit = Null
         /\ snapshots[i].billingUsage = Null
         /\ snapshots[i].billingError = Null
    /\ FetchedAndReturned =>
         LET snap == snapshots[run.snap]
             compare == run.lastSnap # 0 /\ snapshots[run.lastSnap].hash # run.hash
             diff == IF compare
                     THEN computeDiff(JSONparse(snapshots[run.lastSnap].modelsJson), run.models)
                     ELSE NoDiff
             hasChanges == Len(diff.added) > 0 \/ Len(diff.removed) > 0
         IN  /\ snap.modelsJson = JSONstringify(run.models)
             /\ snap.errorMessage = Null
             /\ run.diff = diff
             /\ run.hasChanges = hasChanges
             /\ run.notified = (IF hasChanges /\ ~run.skipNotification THEN 1 ELSE 0)

C33_Witness ==
  /\ site.unlimitedQuota
  /\ site.apiType = "voapi"
  /\ site.billingAuthValue = "v1:tampered"
  /\ FetchedAndReturned
  /\ run.hasChanges
  /\ run.notified = 1

\* Lines 1028-1035 of run.js: what a check with model fetch returns.
checkSiteReturn(r) ==
  [ok |-> TRUE, hasChanges |-> r.hasChanges, diff |-> r.diff,
   siteName |-> "site.name", checkInChanged |-> r.checkInChanged,
   hasCheckInResult |-> r.needCheckIn /\ r.checkInSuccess # Null,
   checkInSuccess |-> r.checkInSuccess]

\* Line 1001 of run.js: the diff argument of sendModelChangeNotification is the
\* object computeDiff returned.
MailedDiff(r) == [added |-> r.diff.added, removed |-> r.diff.removed,
                  changed |-> r.diff.changed]

\* Lines 588-593 of notifier.js: the entry the global job pushes for a site
\* whose check returned changes.
ChangedSiteEntry(result) == [siteName |-> result.siteName, diff |-> result.diff]

\* Lines 105 and 285, 300 of notifier.js: the emails print a check-in block
\* when the object they read has a checkInResult.
HasCheckInResult(object) == "checkInResult" \in DOMAIN object

\* C34: when a check that performed check-in also detects model changes, the
\* single-site email receives the check-in result with the diff, and the
\* global batch puts it into the site's entry of the changed-sites list.
C34_NotificationCarriesCheckIn ==
  (run.pc = "returned" /\ run.didFetch /\ run.hasChanges
   /\ run.didCheckIn /\ checkSiteReturn(run).hasCheckInResult) =>
    /\ run.notified = 1 => HasCheckInResult(MailedDiff(run))
    /\ run.skipNotification =>
         HasCheckInResult(ChangedSiteEntry(checkSiteReturn(run)))

\* C35: for each site at most one individual cron job is live at any time,
\* and every live individual job is the one the job registry holds for its
\* site, whatever the interleaving of scheduleSite calls.
C35_OneRegisteredJobPerSite ==
  \A i \in Ids :
    /\ Cardinality(LiveJobsOf(i)) <= 1
    /\ \A j \in LiveJobsOf(i) : jobs[i] = j.h

\* C36: at most one global cron job is live at any time, the only running
\* global job is the one in globalScheduleJob, and once a call with a disabled
\* config has completed and nothing else is pending no global job is running.
C36_OneGlobalJob ==
  /\ Cardinality(globalJobs) <= 1
  /\ \A g \in globalJobs : globalScheduleJob = g.h
  /\ (Quiescent /\ derived /\ PolicyDisabled(scheduleConfig)) => globalJobs = {}

\* Site i is a candidate of a live global job: a firing of it checks the site.
CheckedByGlobalBatch(i) ==
  \E g \in globalJobs : g.config.overrideIndividual \/ HasNoCron(siteTable[i])

\* C37: while the global policy is enabled, its job has been registered and
\* no scheduling call is pending, every site is owned by exactly one
\* scheduler: the global batch checks it if and only if it has no live
\* individual job.
C37_ExactlyOneOwner ==
  (~PolicyDisabled(scheduleConfig) /\ globalScheduleJob # 0 /\ Quiescent) =>
    \A i \in Ids : CheckedByGlobalBatch(i) <=> LiveJobsOf(i) = {}

\* C38: every scheduled check performs at least one of check-in and model
\* fetch: no scheduled check returns with a successful snapshot written
\* after neither attempting check-in nor requesting the model list.
C38_ScheduledRunDoesSomething ==
  (run.pc = "returned" /\ ~run.isManual /\ Len(snapshots) > run.startSnaps
   /\ snapshots[Len(snapshots)].errorMessage = Null) =>
    run.didCheckIn \/ run.didFetch

\* C39: skipNotification suppresses the single-site email and nothing else:
\* a check with it writes the snapshot, the ModelDiff row and lastCheckedAt,
\* and returns the hasChanges and diff, that the model lists determine, as a
\* check without it does; only the email is not sent.
C39_SkipSuppressesOnlyTheEmail ==
  FetchedAndReturned =>
    LET before == SubSeq(snapshots, 1, run.startSnaps)
        lastSnap == findFirstSuccessful(before)
        hash == hashModels(run.models)
        compare == lastSnap # 0 /\ before[lastSnap].hash # hash
        diff == IF compare
                THEN computeDiff(JSONparse(before[lastSnap].modelsJson), run.models)
                ELSE NoDiff
        hasChanges == Len(diff.added) > 0 \/ Len(diff.removed) > 0
    IN  /\ Len(snapshots) = run.startSnaps + 1
        /\ snapshots[run.snap] =
             Snapshot(run.startSnaps + 1, JSONstringify(run.models), hash, Null,
                      run.billing, run.checkInSuccess)
        /\ modelDiffs =
             IF hasChanges
             THEN Append(SubSeq(modelDiffs, 1, run.startDiffs),
                         [addedJson |-> JSONstringify(diff.added),
                          removedJson |-> JSONstringify(diff.removed),
                          changedJson |-> JSONstringify(diff.changed),
                          snapshotFromId |-> lastSnap,
                          snapshotToId |-> run.snap])
             ELSE SubSeq(modelDiffs, 1, run.startDiffs)
        /\ run.lastCheckedAt = clock
        /\ run.hasChanges = hasChanges
        /\ run.diff = diff
        /\ run.notified = (IF run.skipNotification THEN 0 ELSE IF hasChanges THEN 1 ELSE 0)

C39_Witness ==
  /\ FetchedAndReturned
  /\ run.skipNotification
  /\ run.hasChanges
  /\ Len(run.diff.removed) > 0
  /\ Len(modelDiffs) = run.startDiffs + 1
  /\ run.notified = 0

\* C40: within one check the check-in request has completed before the model
\* fetch (and the billing request) starts, and its outcome is persisted
\* whatever the model fetch does: the snapshot the check writes, the error
\* snapshot included, carries the check-in outcome of that run.
C40_CheckInFirstAndPersisted ==
  /\ run.pc = "checkin" => (~run.didFetch /\ ~run.didBilling /\ run.snap = 0)
  /\ run.pc \in {"fetch", "compare"} => (run.didCheckIn <=> run.needCheckIn)
  /\ run.didFetch => (run.didCheckIn <=> run.needCheckIn)
  /\ (run.didCheckIn /\ run.pc = "threw") => FetchFailed
  /\ (run.didCheckIn /\ run.pc \in {"returned", "threw"}) =>
       /\ run.snap = run.startSnaps + 1
       /\ Len(snapshots) = run.snap
       /\ run.checkInSuccess \in CheckInOutcomes
       /\ snapshots[run.snap].checkInSuccess = run.checkInSuccess

C40_Witness ==
  /\ FetchFailed
  /\ run.didCheckIn
  /\ run.checkInSuccess = "true"
  /\ snapshots[run.snap].errorMessage # Null
  /\ snapshots[run.snap].checkInSuccess = "true"

====
